---------------------------- MODULE Spec2Model ----------------------------
(***************************************************************************)
(* A model of imagewalkerv1.py: the ImageWalkerMode / LevelPlayMode        *)
(* session (body physics, collisions, pickups, camera, chunk generation,   *)
(* scoring), the seeded level generator, the coin persistence and the      *)
(* part of ImageWalkerApp.run that drives a session.                       *)
(*                                                                         *)
(* Units.  The source computes in floats; the model computes in integers:  *)
(*   length    1 unit = 1/50 pixel          (PX(n) is n pixels)            *)
(*   velocity  pixels per second                                           *)
(*   time      milliseconds (dt, time_alive, wall clock)                   *)
(* Tick durations are multiples of 20 ms, for which every product of the   *)
(* source (accel*dt, gravity*dt, vx*dt, ...) is an exact integer in these  *)
(* units: v px/s over dt ms moves v*dt/20 units.  Only the camera          *)
(* smoothing and the score round (stated where they are modelled).         *)
(***************************************************************************)
EXTENDS Integers, Sequences, FiniteSets, TLC

VARIABLES
    mode,             \* the session object (ImageWalkerMode / LevelPlayMode fields)
    app,              \* ImageWalkerApp: mode pointer, coins_state, on_exit calls
    COIN_ID_COUNTER,  \* the class attribute ImageWalkerMode.COIN_ID_COUNTER
    disk,             \* the two save files: coins file and level progress file
    now,              \* the wall clock read by time.time(), in ms
    ev,               \* what the last frame did (observations of its steps)
    gen,              \* calls of generate_level_by_index and the process-global RNG
    hist              \* how many sessions and processes have been started,
                      \* and what the seeded launches and the loads produced

vars == <<mode, app, COIN_ID_COUNTER, disk, now, ev, gen, hist>>

-----------------------------------------------------------------------------
(* Program constants *)

UNIT == 50
PX(n) == n * UNIT

DEFAULT_W == 1000
DEFAULT_H == 700
gravity == 1500
move_accel == 2200
max_speed == 360
jump_speed == 580
friction_ground == 1800
friction_air == 200
kill_y == 1200
pw == 36
ph == 48
ground_y == 400
scroll_speed == 140
SPRING_BOOST == -760
BUFF_DURATION_SECONDS == 60
COIN_SCORE == 150
COIN_RADIUS == 10
COIN_SPACING == 64
SPRING_SPACING == 80
CARRY_TOLERANCE == 2

W == PX(DEFAULT_W)
H == PX(DEFAULT_H)
PW == PX(pw)
PH == PX(ph)

-----------------------------------------------------------------------------
(* Utilities *)

Max(a, b) == IF a >= b THEN a ELSE b
Min(a, b) == IF a <= b THEN a ELSE b
Abs(a) == IF a >= 0 THEN a ELSE -a

clamp(v, a, b) == Max(a, Min(b, v))

\* G applied to the value of v.  The source computes each intermediate
\* result once and names it; Bind does the same for TLC,
\* which would otherwise recompute a named expression at every use.
Bind(v, G(_)) == CHOOSE y \in { G(x) : x \in {v} } : TRUE

\* Python's int(): truncation toward zero of the quotient n/d (d > 0).
TruncDiv(n, d) == IF n >= 0 THEN n \div d ELSE -((-n) \div d)

\* v px/s over dt ms, in length units (exact for dt a multiple of 20).
Travel(v, dt) == (v * dt) \div 20

\* a px/s^2 over dt ms, in px/s (exact for dt a multiple of 20 and the
\* program's accelerations, all multiples of 50).
DeltaV(a, dt) == (a * dt) \div 1000

-----------------------------------------------------------------------------
(* Geometry primitives *)

intersect(ax, ay, aw, ah, bx, by, bw, bh) ==
    (ax < bx + bw) /\ (ax + aw > bx) /\ (ay < by + bh) /\ (ay + ah > by)

\* The squares are only formed when both offsets are within r, which keeps
\* them in TLC's integer range; when an offset exceeds r the sum of squares
\* exceeds r*r and the source's comparison is false as well.
circle_rect_overlap(cx, cy, r, rx, ry, rw, rh) ==
    LET closest_x == Max(rx, Min(cx, rx + rw))
        closest_y == Max(ry, Min(cy, ry + rh))
        dx == cx - closest_x
        dy == cy - closest_y
    IN  /\ Abs(dx) <= r
        /\ Abs(dy) <= r
        /\ dx * dx + dy * dy <= r * r

BodyHits(m, r) == intersect(m.px, m.py, PW, PH, r.x, r.y, r.w, r.h)


-----------------------------------------------------------------------------
(* ImageWalkerMode._update, lines 599-633: velocity, jump, movers, movement *)

\* Line 599: the net input acceleration.
input_accel(m) ==
    (IF m.hold_left THEN -move_accel ELSE 0)
    + (IF m.hold_right THEN move_accel ELSE 0)

\* Variant of apply_friction: friction is subtracted without the stop at 0.
apply_friction_overshoot(m, dt) ==
    LET accel == input_accel(m)
        v1 == m.vx + DeltaV(accel, dt)
        fr == IF m.on_ground THEN friction_ground ELSE friction_air
    IN  [m EXCEPT !.vx = IF accel = 0
                         THEN IF v1 > 0 THEN v1 - DeltaV(fr, dt)
                              ELSE IF v1 < 0 THEN v1 + DeltaV(fr, dt)
                              ELSE v1
                         ELSE v1]

\* Lines 599-604: input acceleration, and friction when there is no net
\* acceleration.
apply_friction(m, dt) ==
    LET accel == input_accel(m)
        v1 == m.vx + DeltaV(accel, dt)
        fr == IF m.on_ground THEN friction_ground ELSE friction_air
    IN  [m EXCEPT !.vx = IF accel = 0
                         THEN IF v1 > 0 THEN Max(0, v1 - DeltaV(fr, dt))
                              ELSE IF v1 < 0 THEN Min(0, v1 + DeltaV(fr, dt))
                              ELSE v1
                         ELSE v1]

\* Variant of update_horizontal: no speed clamp.
update_horizontal_unclamped(m, dt) == apply_friction(m, dt)

\* Lines 599-605: acceleration and friction, then the speed clamp.
update_horizontal(m, dt) ==
    Bind(apply_friction(m, dt), LAMBDA m1 :
         [m1 EXCEPT !.vx = clamp(m1.vx, -max_speed, max_speed)])

\* Line 606.
update_gravity(m, dt) == [m EXCEPT !.vy = m.vy + DeltaV(gravity, dt)]

\* Lines 722-727: the set of types of the orbs overlapping the body.
orbs_touching_player(m) ==
    { m.orbs[i].type : i \in { j \in DOMAIN m.orbs :
        circle_rect_overlap(m.orbs[j].x, m.orbs[j].y, m.orbs[j].r,
                            m.px, m.py, PW, PH) } }

\* Variant of jump_mult: a 'high' orb gives no more than a 'normal' one.
jump_mult_high_as_normal(touched_types) ==
    IF "high" \in touched_types THEN 100
    ELSE IF "normal" \in touched_types THEN 100
    ELSE IF "small" \in touched_types THEN 60
    ELSE 100

\* Variant of jump_mult: the types are tested in the order small, normal,
\* high.
jump_mult_small_first(touched_types) ==
    IF "small" \in touched_types THEN 60
    ELSE IF "normal" \in touched_types THEN 100
    ELSE IF "high" \in touched_types THEN 135
    ELSE 100

\* Lines 610-614: the jump multiplier, in hundredths.
jump_mult(touched_types) ==
    IF "high" \in touched_types THEN 135
    ELSE IF "normal" \in touched_types THEN 100
    ELSE IF "small" \in touched_types THEN 60
    ELSE 100

\* Variant of jump_allowed: a request is consumed wherever the body is.
jump_allowed_anywhere(m, touched_types) == m.want_jump

\* Lines 616-617: whether the jump request is consumed.
jump_allowed(m, touched_types) ==
    m.want_jump /\ (m.on_ground \/ touched_types # {})

\* Variant of update_jump: a request that is not consumed is kept.
update_jump_keep(m) ==
    LET touched_types == orbs_touching_player(m)
    IN  IF jump_allowed(m, touched_types)
        THEN [m EXCEPT !.vy = -((jump_speed * jump_mult(touched_types)) \div 100),
                       !.want_jump = FALSE]
        ELSE m

\* Lines 608-618.  580 * 1.35 = 783 and 580 * 0.6 = 348 exactly.
update_jump(m) ==
    LET touched_types == orbs_touching_player(m)
    IN  [m EXCEPT !.vy = IF jump_allowed(m, touched_types)
                         THEN -((jump_speed * jump_mult(touched_types)) \div 100)
                         ELSE @,
                  !.want_jump = FALSE]

\* Lines 620-623: every mover advances by vx*dt and reverses beyond its range.
advance_mover(mv, dt) ==
    LET x1 == mv.x + Travel(mv.vx, dt)
    IN  [mv EXCEPT !.x = x1,
                   !.vx = IF Abs(x1 - mv.home) > mv.range THEN -mv.vx ELSE mv.vx]

\* Variant of update_movers: every mover is advanced twice.
update_movers_twice(m, dt) ==
    [m EXCEPT !.movers = [i \in DOMAIN m.movers |->
        advance_mover(advance_mover(m.movers[i], dt), dt)]]

update_movers(m, dt) ==
    [m EXCEPT !.movers = [i \in DOMAIN m.movers |-> advance_mover(m.movers[i], dt)]]

\* self.platforms + self.movers, as rectangles.
Solids(m) ==
    m.platforms \o [i \in DOMAIN m.movers |->
        [x |-> m.movers[i].x, y |-> m.movers[i].y,
         w |-> m.movers[i].w, h |-> m.movers[i].h]]

\* Variant of resolve_one: a head collision sets on_ground as a landing does.
resolve_one_head_grounds(m, pl, axis) ==
    IF ~BodyHits(m, pl) THEN m
    ELSE IF axis = "x"
    THEN [m EXCEPT !.px = IF m.vx > 0 THEN pl.x - PW
                          ELSE IF m.vx < 0 THEN pl.x + pl.w ELSE @,
                   !.vx = 0]
    ELSE IF m.vy > 0
         THEN [m EXCEPT !.py = pl.y - PH, !.vy = 0, !.on_ground = TRUE]
         ELSE IF m.vy < 0
              THEN [m EXCEPT !.py = pl.y + pl.h, !.vy = 0, !.on_ground = TRUE]
              ELSE m

\* Lines 696-711: the body of the loop, for one rectangle pl.
resolve_one(m, pl, axis) ==
    IF ~BodyHits(m, pl) THEN m
    ELSE IF axis = "x"
    THEN [m EXCEPT !.px = IF m.vx > 0 THEN pl.x - PW
                          ELSE IF m.vx < 0 THEN pl.x + pl.w ELSE @,
                   !.vx = 0]
    ELSE IF m.vy > 0
         THEN [m EXCEPT !.py = pl.y - PH, !.vy = 0, !.on_ground = TRUE]
         ELSE IF m.vy < 0
              THEN [m EXCEPT !.py = pl.y + pl.h, !.vy = 0]
              ELSE m

RECURSIVE resolve_from(_, _, _, _)
resolve_from(m, solids, i, axis) ==
    IF i > Len(solids) THEN m
    ELSE Bind(resolve_one(m, solids[i], axis),
              LAMBDA m1 : resolve_from(m1, solids, i + 1, axis))

\* Lines 694-711: the rectangles are visited in list order, each against the
\* body as the earlier ones left it.
resolve_collisions(m, axis) ==
    Bind(Solids(m), LAMBDA solids : resolve_from(m, solids, 1, axis))

\* Lines 625-627: on_ground is cleared, the body moves along x and is
\* resolved on that axis.
move_x(m, dt) ==
    Bind([m EXCEPT !.on_ground = FALSE, !.px = m.px + Travel(m.vx, dt)],
         LAMBDA m0 : resolve_collisions(m0, "x"))

\* Line 628: the body moves along y.
integrate_y(m, dt) == [m EXCEPT !.py = m.py + Travel(m.vy, dt)]

\* Lines 625-629.
update_move(m, dt) ==
    Bind(move_x(m, dt), LAMBDA m1 :
    Bind(integrate_y(m1, dt), LAMBDA m2 : resolve_collisions(m2, "y")))

RECURSIVE carry_from(_, _)
carry_from(m, i) ==
    IF i > Len(m.movers) THEN 0
    ELSE LET mv == m.movers[i]
             on_top == Abs((m.py + PH) - mv.y) <= PX(CARRY_TOLERANCE)
             overlapping_x == ~(m.px + PW <= mv.x \/ m.px >= mv.x + mv.w)
         IN  IF on_top /\ overlapping_x THEN mv.vx ELSE carry_from(m, i + 1)

\* Lines 713-720: the velocity of the first mover the body stands on.
carry_velocity_from_mover(m) == carry_from(m, 1)

\* Variant of update_carry: the body is carried whether on the ground or not.
update_carry_airborne(m, dt) ==
    LET carry_vx == carry_velocity_from_mover(m)
    IN  IF carry_vx # 0
        THEN [m EXCEPT !.px = m.px + Travel(carry_vx, dt)]
        ELSE m

\* Lines 631-633.
update_carry(m, dt) ==
    LET carry_vx == carry_velocity_from_mover(m)
    IN  IF carry_vx # 0 /\ m.on_ground
        THEN [m EXCEPT !.px = m.px + Travel(carry_vx, dt)]
        ELSE m

-----------------------------------------------------------------------------
(* The program state threaded through one handler: P.m the session object, *)
(* P.app the application, P.ctr the coin id counter, P.disk the save       *)
(* files, P.now the wall clock, P.ev the observations of the frame.        *)

\* self.coins is assigned; in a session built on the application's
\* coins_state (line 417: the very list of that dict) the dict sees it too.
SetCoins(P, coins) ==
    [P EXCEPT !.m.coins = coins,
              !.app.coins_state.coins = IF P.m.aliased THEN coins ELSE @]

\* Lines 64-69 with 429-431: the coins file holds the session's coin list
\* and buff end time.
save_coins_state(P) ==
    [P EXCEPT !.disk.coins = P.m.coins,
              !.disk.buff_end_time = P.m.buff_end_time,
              !.disk.coin_writes = @ + 1]

\* Variant of stop: the session is marked stopped, nothing is saved.
stop_unsaved(P) == [P EXCEPT !.m.running = FALSE]

\* Lines 520-526.
stop(P) ==
    Bind(save_coins_state(P), LAMBDA P1 : [P1 EXCEPT !.m.running = FALSE])

\* The exit callbacks.  Lines 1125-1137 (also 1143-1155, 1213-1225,
\* 1378-1390): copy the session's coins into coins_state and save them if
\* the application still points at a session, then drop the session.
\* Lines 1249-1250 (a session loaded from an exported snapshot): only drop it.
\* ev.exit_seen: the callback ran in this frame; ev.exit_flushed: each time
\* it ran, the coins file had been written since the frame began and held
\* the session's coin list and buff end time.
on_exit(P) ==
    Bind([P EXCEPT !.ev.exit_seen = TRUE,
                   !.ev.exit_flushed =
                       /\ @
                       /\ P.disk.coin_writes > P.ev.writes_before
                       /\ P.disk.coins = P.m.coins
                       /\ P.disk.buff_end_time = P.m.buff_end_time],
         LAMBDA P0 :
    Bind(IF P0.m.exit = "app" /\ P0.app.mode = "session"
         THEN [P0 EXCEPT
                 !.app.coins_state = [coins |-> P0.m.coins,
                                      buff_end_time |-> P0.m.buff_end_time],
                 !.m.aliased = TRUE,
                 !.disk.coins = P0.m.coins,
                 !.disk.buff_end_time = P0.m.buff_end_time,
                 !.disk.coin_writes = @ + 1]
         ELSE P0,
         LAMBDA P1 : [P1 EXCEPT !.app.mode = "none", !.app.exits = @ + 1]))

\* Lines 740-762: no effect on a dead body; otherwise the body is dead, the
\* coins are saved, the end screen blocks for `wait` ms until a key or
\* click, and the session is stopped and left.
\* ev.at_death: the score, coins, buff end time, vy and frontier as they
\* were when the body died (a sequence of length 0 or 1).
game_over(P, wait) ==
    IF P.m.dead THEN P
    ELSE Bind([P EXCEPT !.m.dead = TRUE,
                        !.ev.at_death =
                            << [score |-> P.m.score, coins |-> P.m.coins,
                                buff_end_time |-> P.m.buff_end_time,
                                vy |-> P.m.vy,
                                level_extent_x |-> P.m.level_extent_x] >>],
              LAMBDA P0 :
         Bind(save_coins_state(P0), LAMBDA P1 :
         Bind([P1 EXCEPT !.now = @ + wait], LAMBDA P2 :
         Bind(stop(P2), LAMBDA P3 : on_exit(P3)))))

\* Lines 635-637.
update_spikes(P, wait) ==
    IF \E i \in DOMAIN P.m.spikes : BodyHits(P.m, P.m.spikes[i])
    THEN game_over(P, wait)
    ELSE P

\* Lines 643-644: SPRING_BOOST * (1 / max(0.2, gravity / 1500)).
spring_velocity == (SPRING_BOOST * 1500) \div Max(300, gravity)

\* Lines 640-647: the body of the loop, for one spring.
spring_one(P, spring) ==
    IF BodyHits(P.m, spring) /\ P.m.vy >= 0
    THEN [P EXCEPT !.m.vy = spring_velocity, !.ev.launches = @ + 1]
    ELSE P

RECURSIVE springs_from(_, _)
springs_from(P, i) ==
    IF i > Len(P.m.springs) THEN P
    ELSE Bind(spring_one(P, P.m.springs[i]),
              LAMBDA P1 : springs_from(P1, i + 1))

\* Lines 639-647.  ev.spring_touch: the body overlaps a spring at this phase;
\* ev.entry_launches: the launches since the body last did not.
update_springs(P) ==
    LET touch == \E i \in DOMAIN P.m.springs : BodyHits(P.m, P.m.springs[i])
    IN  Bind([P EXCEPT !.ev.launches = 0], LAMBDA P0 :
        Bind(springs_from(P0, 1), LAMBDA P1 :
             [P1 EXCEPT !.ev.spring_touch = touch,
                        !.ev.entry_launches =
                            IF touch THEN @ + P1.ev.launches ELSE 0]))

CoinTouched(m, c) ==
    ~c.collected /\ circle_rect_overlap(c.x, c.y, c.r, m.px, m.py, PW, PH)

\* Line 653: time.time() + BUFF_DURATION_SECONDS, in ms.
BuffEnd(t) == t + 1000 * BUFF_DURATION_SECONDS

\* Variant of update_coins: the collection is not saved.
update_coins_unsaved(P) ==
    LET hit == { i \in DOMAIN P.m.coins : CoinTouched(P.m, P.m.coins[i]) }
    IN  IF hit = {} THEN P
        ELSE LET i == CHOOSE j \in hit : \A k \in hit : j <= k
             IN  Bind(SetCoins(P, [P.m.coins EXCEPT ![i].collected = TRUE]),
                      LAMBDA P1 :
                      [P1 EXCEPT !.m.buff_end_time = BuffEnd(P.now),
                                 !.m.score = @ + COIN_SCORE,
                                 !.ev.collected = P.m.coins[i].id,
                                 !.ev.last_collect = P.now,
                                 !.ev.coin_hits = hit])

\* Variant of update_coins: every coin the body overlaps is collected.
update_coins_all(P) ==
    LET hit == { i \in DOMAIN P.m.coins : CoinTouched(P.m, P.m.coins[i]) }
    IN  IF hit = {} THEN P
        ELSE LET i == CHOOSE j \in hit : \A k \in hit : j <= k
             IN  Bind(SetCoins(P, [k \in DOMAIN P.m.coins |->
                                     IF k \in hit
                                     THEN [P.m.coins[k] EXCEPT !.collected = TRUE]
                                     ELSE P.m.coins[k]]),
                      LAMBDA P1 :
                 Bind([P1 EXCEPT !.m.buff_end_time = BuffEnd(P.now),
                                 !.m.score = @ + COIN_SCORE,
                                 !.ev.collected = P.m.coins[i].id,
                                 !.ev.last_collect = P.now,
                                 !.ev.coin_hits = hit],
                      LAMBDA P2 : save_coins_state(P2)))

\* Lines 649-658: the first uncollected coin overlapping the body is
\* collected, the buff starts, the score gets 150, the coins are saved.
\* ev.coin_hits: the places in the list of the uncollected coins the body
\* overlapped.
update_coins(P) ==
    LET hit == { i \in DOMAIN P.m.coins : CoinTouched(P.m, P.m.coins[i]) }
    IN  IF hit = {} THEN P
        ELSE LET i == CHOOSE j \in hit : \A k \in hit : j <= k
             IN  Bind(SetCoins(P, [P.m.coins EXCEPT ![i].collected = TRUE]),
                      LAMBDA P1 :
                 Bind([P1 EXCEPT !.m.buff_end_time = BuffEnd(P.now),
                                 !.m.score = @ + COIN_SCORE,
                                 !.ev.collected = P.m.coins[i].id,
                                 !.ev.last_collect = P.now,
                                 !.ev.coin_hits = hit],
                      LAMBDA P2 : save_coins_state(P2)))

\* Variant of update_kill: falling out of bounds does not end the session.
update_kill_never(P, wait) == P

\* Lines 660-661.
update_kill(P, wait) ==
    IF P.m.py > PX(kill_y) THEN game_over(P, wait) ELSE P

\* (target - cam) * min(1.0, rate * dt), rounded toward zero to the unit.
Smooth(cam, target, rate, dt) ==
    cam + TruncDiv((target - cam) * Min(1000, rate * dt), 1000)

\* Lines 663-665.
update_camera(m, dt) ==
    LET tx == m.px - (W * 4) \div 10
        ty == m.py - (H * 6) \div 10
    IN  [m EXCEPT !.cam_x = Smooth(m.cam_x, tx, 8, dt),
                  !.cam_y = Smooth(m.cam_y, ty, 8, dt)]

\* Variant of update_sidescroller: the camera scrolls on, the body is left
\* where it is.
update_sidescroller_unpushed(P, dt, wait) ==
    IF ~P.m.sidescroller THEN P
    ELSE [P EXCEPT !.m.cam_x = @ + Travel(scroll_speed, dt),
                   !.m.cam_y = Smooth(@, P.m.py - (H * 6) \div 10, 6, dt)]

\* Lines 667-678 (left_wall_kill is the sidescroller flag, line 415).
\* ev.pushed: the body was behind the camera's left edge and was moved to it.
update_sidescroller(P, dt, wait) ==
    IF ~P.m.sidescroller THEN P
    ELSE Bind([P.m EXCEPT
                 !.cam_x = @ + Travel(scroll_speed, dt),
                 !.cam_y = Smooth(@, P.m.py - (H * 6) \div 10, 6, dt)],
              LAMBDA m2 :
         IF m2.px < m2.cam_x
         THEN Bind([P EXCEPT !.m = [m2 EXCEPT !.px = m2.cam_x],
                             !.ev.pushed = TRUE], LAMBDA P3 :
              Bind(Solids(P3.m), LAMBDA solids :
              Bind(IF \E i \in DOMAIN solids : BodyHits(P3.m, solids[i])
                   THEN game_over(P3, wait)
                   ELSE P3,
                   LAMBDA P4 :
                   IF P3.m.px > m2.px /\ P3.m.vx < 0
                   THEN [P4 EXCEPT !.m.vx = 0]
                   ELSE P4)))
         ELSE [P EXCEPT !.m = m2])

\* Variant of bonus_mult: the buff still counts at its end time.
bonus_mult_inclusive(t, buff_end_time) == IF t <= buff_end_time THEN 2 ELSE 1

\* Line 681.
bonus_mult(t, buff_end_time) == IF t < buff_end_time THEN 2 ELSE 1

\* Variant of update_score: the computed score replaces the score whether
\* it is higher or not.
update_score_overwritten(P) ==
    LET mult == bonus_mult(P.now, P.m.buff_end_time)
        computed_score == TruncDiv(2 * P.m.px + 3 * P.m.time_alive, 1000) * mult
    IN  [P EXCEPT !.m.score = computed_score,
                  !.ev.bonus_mult = mult,
                  !.ev.score_time = P.now,
                  !.ev.score_before = P.m.score]

\* Variant of update_score: the sum is multiplied before it is truncated.
update_score_scaled_first(P) ==
    LET mult == bonus_mult(P.now, P.m.buff_end_time)
        computed_score == TruncDiv((2 * P.m.px + 3 * P.m.time_alive) * mult, 1000)
    IN  [P EXCEPT !.m.score = Max(P.m.score, computed_score),
                  !.ev.bonus_mult = mult,
                  !.ev.score_time = P.now,
                  !.ev.score_before = P.m.score]

\* Lines 680-684.  px*0.1 + time_alive*3 is (2*px + 3*time_alive)/1000 in
\* the model's units; int() truncates toward zero, first the sum (line 682)
\* and then the product with the multiplier (line 683), which is whole.
\* ev.score_before: the score before this step.
update_score(P) ==
    LET mult == bonus_mult(P.now, P.m.buff_end_time)
        computed_score == TruncDiv(2 * P.m.px + 3 * P.m.time_alive, 1000) * mult
    IN  [P EXCEPT !.m.score = Max(P.m.score, computed_score),
                  !.ev.bonus_mult = mult,
                  !.ev.score_time = P.now,
                  !.ev.score_before = P.m.score]

-----------------------------------------------------------------------------
(* Coin, spring and chunk generation *)

Rect(x, y, w, h) == [x |-> x, y |-> y, w |-> w, h |-> h]

\* Lines 436-437: dx*dx + dy*dy < 64*64.  The squares are only formed when
\* both offsets are below 64 px (otherwise the sum is not below 64*64).
CoinTooClose(c, x, y) ==
    LET dx == c.x - x
        dy == c.y - y
        d  == PX(COIN_SPACING)
    IN  Abs(dx) < d /\ Abs(dy) < d /\ dx * dx + dy * dy < d * d

\* Variant of generate_coin: no distance test.
generate_coin_unchecked(P, x, y) ==
    LET coin == [id |-> P.ctr, x |-> x, y |-> y, r |-> PX(COIN_RADIUS),
                 collected |-> FALSE]
    IN  Bind(SetCoins([P EXCEPT !.ctr = @ + 1], Append(P.m.coins, coin)),
             LAMBDA P1 : save_coins_state(P1))

\* Lines 433-440: no coin within 64 px of an uncollected coin; otherwise a
\* coin with the next id is appended and the coins are saved.
generate_coin(P, x, y) ==
    IF \E i \in DOMAIN P.m.coins :
          ~P.m.coins[i].collected /\ CoinTooClose(P.m.coins[i], x, y)
    THEN P
    ELSE LET coin == [id |-> P.ctr, x |-> x, y |-> y, r |-> PX(COIN_RADIUS),
                      collected |-> FALSE]
         IN  Bind(SetCoins([P EXCEPT !.ctr = @ + 1], Append(P.m.coins, coin)),
                  LAMBDA P1 : save_coins_state(P1))

\* Lines 442-447.
generate_spring(m, x) ==
    IF \E i \in DOMAIN m.springs : Abs(m.springs[i].x - x) < PX(SPRING_SPACING)
    THEN m
    ELSE [m EXCEPT !.springs =
             Append(@, Rect(x, m.ground_y - PX(12), PX(48), PX(12)))]

\* The library images (lines 145-155, lib_surfaces) are a sequence of
\* [iw, ih], the size of each image in pixels; iw = 0 stands for a file that
\* did not load (None).

\* Variant of get_lib_photo: the image is used at its own size.
get_lib_photo_unscaled(lib, idx, target_w) ==
    IF ~(0 <= idx /\ idx < Len(lib)) THEN <<>>
    ELSE IF lib[idx + 1].iw = 0 THEN <<>>
    ELSE << [w |-> lib[idx + 1].iw, h |-> lib[idx + 1].ih] >>

\* Lines 188-204 with a target width (pixels): the image is scaled to that
\* width, or to the height 240 if that would make it taller than 240; a
\* sequence of length 0 (None) or 1 holding the size of the scaled image.
\* int(iw * (target_w / iw)) is target_w for the image sizes used here (the
\* floating-point product can fall one short for others, never above).
get_lib_photo(lib, idx, target_w) ==
    IF ~(0 <= idx /\ idx < Len(lib)) THEN <<>>
    ELSE IF lib[idx + 1].iw = 0 THEN <<>>
    ELSE LET iw == lib[idx + 1].iw
             ih == lib[idx + 1].ih
         IN  IF ih * target_w > 240 * iw
             THEN << [w |-> Max(1, (iw * 240) \div ih), h |-> 240] >>
             ELSE << [w |-> target_w, h |-> Max(1, (ih * target_w) \div iw)] >>

\* Lines 493-500.  img_idx is -1 for None; w and h are in units, w a whole
\* number of pixels; a platform with a library image has the image's size.
add_platform(m, lib, x, y, w, h, img_idx) ==
    LET photo == IF img_idx >= 0 THEN get_lib_photo(lib, img_idx, w \div UNIT)
                 ELSE <<>>
    IN  IF Len(photo) = 1
        THEN [m EXCEPT !.platforms =
                 Append(@, Rect(x, y, PX(photo[1].w), PX(photo[1].h)))]
        ELSE [m EXCEPT !.platforms = Append(@, Rect(x, y, w, h))]

\* Lines 502-503.
add_mover(m, x, y, w, h, vx, move_range) ==
    [m EXCEPT !.movers = Append(@, [x |-> x, y |-> y, w |-> w, h |-> h,
                                    vx |-> vx, home |-> x, range |-> move_range])]

\* Lines 505-506.
add_spikes(m, x, y, w, h) == [m EXCEPT !.spikes = Append(@, Rect(x, y, w, h))]

\* Lines 508-509.
add_orb(m, x, y, typ) ==
    LET r == IF typ = "small" THEN 10 ELSE IF typ = "high" THEN 14 ELSE 12
    IN  [m EXCEPT !.orbs = Append(@, [x |-> x, y |-> y, r |-> PX(r), type |-> typ])]

\* The random draws of one _add_level_chunk call (lines 472-490), in pixels.
\* Optional parts are sequences of length 0 or 1 (the probability rolls).
\*   w, gap, dy            randint(180,320), randint(80,200), randint(-140,140)
\*   orb   [off, up, typ]  off in [0.3w, 0.7w], up in [80,160]
\*   mover [off, w, up, vx, range]
\*                         w in 80..140, off between 0.2w and 0.8w - w,
\*                         up in 60..140, vx in {-120,120}, range in 100..220
\*   spike                 TRUE when the 22% roll places a spike strip
\*   coin  [off, up]       off in [0.2w, 0.8w], up in [40,120]
\*   spring [off]          off in [0.2w, 0.8w]
Between(v, a, b) == Min(a, b) <= v /\ v <= Max(a, b)

ValidChunk(ch) ==
    /\ ch.w \in 180..320 /\ ch.gap \in 80..200 /\ ch.dy \in -140..140
    /\ Len(ch.orb) <= 1 /\ Len(ch.mover) <= 1
    /\ Len(ch.coin) <= 1 /\ Len(ch.spring) <= 1
    /\ \A i \in DOMAIN ch.orb :
          /\ Between(10 * ch.orb[i].off, 3 * ch.w, 7 * ch.w)
          /\ ch.orb[i].up \in 80..160
          /\ ch.orb[i].typ \in {"small", "normal", "high"}
    /\ \A i \in DOMAIN ch.mover :
          /\ ch.mover[i].w \in 80..140
          /\ Between(10 * ch.mover[i].off, 2 * ch.w, 8 * ch.w - 10 * ch.mover[i].w)
          /\ ch.mover[i].up \in 60..140
          /\ ch.mover[i].vx \in {-120, 120}
          /\ ch.mover[i].range \in 100..220
    /\ \A i \in DOMAIN ch.coin :
          /\ Between(10 * ch.coin[i].off, 2 * ch.w, 8 * ch.w)
          /\ ch.coin[i].up \in 40..120
    /\ \A i \in DOMAIN ch.spring :
          Between(10 * ch.spring[i].off, 2 * ch.w, 8 * ch.w)

\* The entries a list has gained.
NewEntries(before, after) == SubSeq(after, Len(before) + 1, Len(after))

\* Lines 470-491.  ev.placed gets one entry for the call: the frontier x0
\* it started at, the width w it drew, the platform it appended and the
\* orbs, movers, spike strips, coins and springs it appended.
add_level_chunk(P, ch) ==
    LET x0 == P.m.level_extent_x
        py == P.m.ground_y + PX(ch.dy)
        lib_n == Len(P.app.lib)
        idx == IF lib_n > 0 THEN Len(P.m.platforms) % lib_n ELSE -1
    IN  Bind(add_platform(P.m, P.app.lib, x0, py, PX(ch.w), PX(48), idx),
             LAMBDA m1 :
        Bind(IF Len(ch.orb) = 1
             THEN add_orb(m1, x0 + PX(ch.orb[1].off), py - PX(ch.orb[1].up),
                          ch.orb[1].typ)
             ELSE m1,
             LAMBDA m2 :
        Bind(IF Len(ch.mover) = 1
             THEN add_mover(m2, x0 + PX(ch.mover[1].off), py - PX(ch.mover[1].up),
                            PX(ch.mover[1].w), PX(20), ch.mover[1].vx,
                            PX(ch.mover[1].range))
             ELSE m2,
             LAMBDA m3 :
        Bind(IF ch.spike
             THEN add_spikes(m3, x0 + PX(ch.w) \div 4, py - PX(12), PX(64), PX(16))
             ELSE m3,
             LAMBDA m4 :
        Bind([P EXCEPT !.m = m4], LAMBDA P4 :
        Bind(IF Len(ch.coin) = 1
             THEN generate_coin(P4, x0 + PX(ch.coin[1].off), py - PX(ch.coin[1].up))
             ELSE P4,
             LAMBDA P5 :
        Bind(IF Len(ch.spring) = 1
             THEN generate_spring(P5.m, x0 + PX(ch.spring[1].off))
             ELSE P5.m,
             LAMBDA m6 :
             [P5 EXCEPT
                !.m = [m6 EXCEPT !.level_extent_x = x0 + PX(ch.w + ch.gap)],
                !.ev.placed = Append(@,
                    [x0 |-> x0, w |-> PX(ch.w),
                     platform |-> m1.platforms[Len(m1.platforms)],
                     orbs |-> NewEntries(P.m.orbs, m6.orbs),
                     movers |-> NewEntries(P.m.movers, m6.movers),
                     spikes |-> NewEntries(P.m.spikes, m6.spikes),
                     coins |-> NewEntries(P.m.coins, P5.m.coins),
                     springs |-> NewEntries(P.m.springs, m6.springs)])])))))))

\* Variants of needs_chunk: the test made 0.1 widths, and 0.5 widths, nearer
\* to the camera.
needs_chunk_near(m) == m.cam_x + (W * 14) \div 10 > m.level_extent_x

needs_chunk_late(m) == m.cam_x + W > m.level_extent_x

\* Line 686: the frontier test.
needs_chunk(m) == m.cam_x + (W * 3) \div 2 > m.level_extent_x

\* Lines 686-687.  ch holds the draws of the chunk, used if one is generated.
\* ev.chunk: one was; ev.chunk_w: the width drawn for its platform.
update_chunk(P, ch) ==
    Bind([P EXCEPT !.ev.extent_before = P.m.level_extent_x], LAMBDA P0 :
         IF needs_chunk(P0.m)
         THEN Bind(add_level_chunk(P0, ch),
                   LAMBDA P1 : [P1 EXCEPT !.ev.chunk = TRUE,
                                          !.ev.chunk_w = PX(ch.w)])
         ELSE P0)

-----------------------------------------------------------------------------
(* The tick *)

\* What a frame records of its own steps.  Four entries are carried from
\* frame to frame: frames (the frames the session has run), entry_launches
\* (the spring launches since the body last overlapped no spring),
\* last_collect (when the session last collected a coin, -1 if never) and
\* missed_jumps (the jump requests the session did not consume).
\* The rest is reset at the start of each frame.  Of one tick:
\*   jump_key      the tick's events held a jump key press
\*   vx_before, vx_friction   vx at the start of _update and after line 604
\*   vy_gravity    vy after line 606
\*   movers_seen   the movers as the collision resolution of lines 625-629
\*                 found them
\*   y_overlap, y_vy   after line 628: the body overlaps a platform or
\*                 mover, and its vy
\*   vy_resolved, px_resolved   vy and px after line 629
\*   px_carried    px after line 633
FirstEvents ==
    [ticked |-> FALSE, dt |-> 0, frames |-> 0,
     jump_req |-> FALSE, jump_ground |-> FALSE, jump_types |-> {}, jump_vy |-> 0,
     launches |-> 0, spring_touch |-> FALSE, entry_launches |-> 0,
     collected |-> -1, last_collect |-> -1, bonus_mult |-> 0, score_time |-> 0,
     chunk |-> FALSE, chunk_w |-> 0, extent_before |-> 0, cam_before |-> 0,
     finished |-> FALSE, escaped |-> FALSE, progress_writes |-> 0,
     writes_before |-> 0, exit_seen |-> FALSE, exit_flushed |-> TRUE,
     coin_hits |-> {},
     jump_key |-> FALSE, vx_before |-> 0, vx_friction |-> 0, vy_gravity |-> 0,
     movers_seen |-> <<>>, y_overlap |-> FALSE, y_vy |-> 0, vy_resolved |-> 0,
     px_resolved |-> 0, px_carried |-> 0, pushed |-> FALSE, score_before |-> 0,
     missed_jumps |-> 0, placed |-> <<>>, level |-> <<>>, at_death |-> <<>>]

NextEvents(e) ==
    [FirstEvents EXCEPT !.frames = e.frames + 1,
                        !.entry_launches = e.entry_launches,
                        !.last_collect = e.last_collect,
                        !.missed_jumps = e.missed_jumps]

\* Lines 598-692 (the message timer of lines 689-692 is display only and is
\* left out).  wait: how long an end screen blocks, if one is shown;
\* ch: the draws of the chunk, if one is generated.
update(P, dt, wait, ch) ==
    Bind(update_horizontal(P.m, dt), LAMBDA mh :
    Bind(update_gravity(mh, dt), LAMBDA m1 :
    Bind(update_jump(m1), LAMBDA m2 :
    Bind(update_movers(m2, dt), LAMBDA mv :
    Bind(move_x(mv, dt), LAMBDA mx :
    Bind(integrate_y(mx, dt), LAMBDA my :
    Bind(resolve_collisions(my, "y"), LAMBDA mm :
    Bind(update_carry(mm, dt), LAMBDA m3 :
    Bind([P EXCEPT !.m = m3,
                   !.ev.jump_req = m1.want_jump,
                   !.ev.jump_ground = m1.on_ground,
                   !.ev.jump_types = orbs_touching_player(m1),
                   !.ev.jump_vy = m2.vy,
                   !.ev.cam_before = P.m.cam_x,
                   !.ev.vx_before = P.m.vx,
                   !.ev.vx_friction = apply_friction(P.m, dt).vx,
                   !.ev.vy_gravity = m1.vy,
                   !.ev.missed_jumps =
                       IF m1.want_jump /\ m2.vy = m1.vy THEN @ + 1 ELSE @,
                   !.ev.movers_seen = mv.movers,
                   !.ev.y_overlap = (\E i \in DOMAIN Solids(my) :
                                        BodyHits(my, Solids(my)[i])),
                   !.ev.y_vy = my.vy,
                   !.ev.vy_resolved = mm.vy,
                   !.ev.px_resolved = mm.px,
                   !.ev.px_carried = m3.px],
         LAMBDA P3 :
    Bind(update_spikes(P3, wait), LAMBDA Pa :
    Bind(update_springs(Pa), LAMBDA Pb :
    Bind(update_coins(Pb), LAMBDA Pc :
    Bind(update_kill(Pc, wait), LAMBDA P4 :
    Bind([P4 EXCEPT !.m = update_camera(P4.m, dt)], LAMBDA P5 :
    Bind(update_sidescroller(P5, dt, wait), LAMBDA Pd :
    Bind(update_score(Pd), LAMBDA P6 :
         update_chunk(P6, ch)))))))))))))))))

\* Lines 900-913: the finish screen blocks for `wait` ms, then the session
\* is stopped and left.
level_complete(P, wait) ==
    Bind([P EXCEPT !.now = @ + wait, !.ev.finished = TRUE], LAMBDA P1 :
    Bind(stop(P1), LAMBDA P2 : on_exit(P2)))

\* Lines 867-870: the body overlaps the Finish square.
touches_finish(m) ==
    /\ Len(m.finish) = 1
    /\ intersect(m.px, m.py, PW, PH,
                 m.finish[1].x, m.finish[1].y, m.finish[1].size, m.finish[1].size)

\* Lines 865-871.
level_update(P, dt, wait, ch) ==
    Bind(update(P, dt, wait, ch), LAMBDA P1 :
         IF touches_finish(P1.m) THEN level_complete(P1, wait) ELSE P1)

\* Lines 530-554, one event.  Escape saves, stops and leaves; tick then
\* returns False without looking at the remaining events.
handle_event(P, e) ==
    IF e = "left_down" THEN [P EXCEPT !.m.hold_left = TRUE]
    ELSE IF e = "right_down" THEN [P EXCEPT !.m.hold_right = TRUE]
    ELSE IF e = "jump_down" THEN [P EXCEPT !.m.want_jump = TRUE]
    ELSE IF e = "left_up" THEN [P EXCEPT !.m.hold_left = FALSE]
    ELSE IF e = "right_up" THEN [P EXCEPT !.m.hold_right = FALSE]
    ELSE IF e = "jump_up" THEN [P EXCEPT !.m.want_jump = FALSE]
    ELSE IF e = "escape"
         THEN Bind(save_coins_state(P), LAMBDA P1 :
              Bind(stop(P1), LAMBDA P2 :
              Bind(on_exit(P2), LAMBDA P3 : [P3 EXCEPT !.ev.escaped = TRUE])))
    ELSE P

RECURSIVE handle_events(_, _, _)
handle_events(P, events, i) ==
    IF i > Len(events) \/ P.ev.escaped THEN P
    ELSE Bind(handle_event(P, events[i]),
              LAMBDA P1 : handle_events(P1, events, i + 1))

\* Variant of tick: a session that is not running is ticked all the same.
tick_always(P, events, dt, wait, ch) ==
    Bind(handle_events(P, events, 1), LAMBDA P1 :
         IF P1.ev.escaped THEN P1
         ELSE Bind([P1 EXCEPT !.m.time_alive = @ + dt,
                              !.ev.ticked = TRUE, !.ev.dt = dt,
                              !.ev.jump_key = (\E i \in DOMAIN events :
                                                  events[i] = "jump_down")],
                   LAMBDA P2 :
                   IF P2.m.kind = "level"
                   THEN level_update(P2, dt, wait, ch)
                   ELSE update(P2, dt, wait, ch)))

\* Lines 528-558.  The result's ev.ticked says that _update ran; tick
\* returns False exactly when it did not.
tick(P, events, dt, wait, ch) ==
    IF ~P.m.running THEN P
    ELSE Bind(handle_events(P, events, 1), LAMBDA P1 :
         IF P1.ev.escaped THEN P1
         ELSE Bind([P1 EXCEPT !.m.time_alive = @ + dt,
                              !.ev.ticked = TRUE, !.ev.dt = dt,
                              !.ev.jump_key = (\E i \in DOMAIN events :
                                                  events[i] = "jump_down")],
                   LAMBDA P2 :
                   IF P2.m.kind = "level"
                   THEN level_update(P2, dt, wait, ch)
                   ELSE update(P2, dt, wait, ch)))

\* Lines 80-85 after 1510-1511: the level index joins the completed set of
\* the progress file.
save_completed(P, idx) ==
    [P EXCEPT !.disk.completed = @ \cup {idx}, !.ev.progress_writes = @ + 1]

\* Lines 1489-1512: what run does when tick returned False.
after_tick_false(P) ==
    Bind(IF P.app.mode = "session"
         THEN [P EXCEPT
                 !.app.coins_state = [coins |-> P.m.coins,
                                      buff_end_time |-> P.m.buff_end_time],
                 !.m.aliased = TRUE,
                 !.disk.coins = P.m.coins,
                 !.disk.buff_end_time = P.m.buff_end_time,
                 !.disk.coin_writes = @ + 1]
         ELSE P,
         LAMBDA P1 :
    LET finished_flag == /\ P1.app.mode = "session"
                         /\ P1.m.kind = "level"
                         /\ P1.m.px + PW >= P1.m.finish[1].x
    IN  Bind(IF finished_flag THEN save_completed(P1, P1.m.level_index) ELSE P1,
             LAMBDA P2 : [P2 EXCEPT !.app.mode = "none"]))

\* Lines 1487-1512: one iteration of run's loop while a session is active.
run_frame(P, events, dt, wait, ch) ==
    Bind([P EXCEPT !.ev = [NextEvents(P.ev) EXCEPT
                              !.writes_before = P.disk.coin_writes]],
         LAMBDA P0 :
    Bind(tick(P0, events, dt, wait, ch), LAMBDA P1 :
         IF P1.ev.ticked THEN P1 ELSE after_tick_false(P1)))

-----------------------------------------------------------------------------
(* Construction of a session *)

\* Lines 399-419: the fields before _build_level.
NewMode(sidescroller, coins_data, aliased) ==
    [px |-> PX(100), py |-> PX(-50), vx |-> 0, vy |-> 0,
     on_ground |-> FALSE, dead |-> FALSE, running |-> FALSE,
     hold_left |-> FALSE, hold_right |-> FALSE, want_jump |-> FALSE,
     platforms |-> <<>>, movers |-> <<>>, spikes |-> <<>>, orbs |-> <<>>,
     springs |-> <<>>,
     coins |-> coins_data.coins, buff_end_time |-> coins_data.buff_end_time,
     time_alive |-> 0, score |-> 0, cam_x |-> 0, cam_y |-> 0,
     level_extent_x |-> 0, ground_y |-> PX(ground_y),
     sidescroller |-> sidescroller,
     kind |-> "walker", finish |-> <<>>, level_index |-> 0,
     aliased |-> aliased, exit |-> "app"]

RECURSIVE build_chunks(_, _, _)
\* Lines 456-457: chunks are added while the frontier is below 1.5 widths.
build_chunks(P, chunks, i) ==
    IF ~(P.m.level_extent_x < (W * 3) \div 2) \/ i > Len(chunks) THEN P
    ELSE Bind(add_level_chunk(P, chunks[i]),
              LAMBDA P1 : build_chunks(P1, chunks, i + 1))

RECURSIVE fresh_coins(_, _, _)
\* Lines 465-468: fresh[i] = [x, up] are the draws of the i-th fresh coin,
\* x in [80, max(200, frontier - 40)] and up in [40, 120], in pixels.
fresh_coins(P, fresh, i) ==
    IF i > Len(fresh) THEN P
    ELSE Bind(generate_coin(P, PX(fresh[i].x), P.m.ground_y - PX(fresh[i].up)),
              LAMBDA P1 : fresh_coins(P1, fresh, i + 1))

ValidFresh(fresh, extent) ==
    /\ Len(fresh) = 3
    /\ \A i \in DOMAIN fresh :
          /\ PX(80) <= PX(fresh[i].x)
          /\ PX(fresh[i].x) <= Max(PX(200), extent - PX(40))
          /\ fresh[i].up \in 40..120

\* Line 464: some coin is uncollected.
any_uncollected(coins) == \E i \in DOMAIN coins : ~coins[i].collected

\* Lines 449-468.
build_level(P, chunks, fresh) ==
    Bind([P.m EXCEPT !.platforms = <<>>, !.movers = <<>>, !.spikes = <<>>,
                     !.orbs = <<>>, !.springs = <<>>, !.level_extent_x = 0],
         LAMBDA m0 :
    Bind(add_platform(m0, P.app.lib, 0, m0.ground_y, PX(280), PX(40),
                      IF Len(P.app.lib) > 0 THEN 0 ELSE -1),
         LAMBDA m1 :
    Bind(add_orb([m1 EXCEPT !.level_extent_x = PX(300)],
                 PX(300) - PX(150), m1.ground_y - PX(120), "normal"),
         LAMBDA m2 :
    Bind([P EXCEPT !.m = m2], LAMBDA P2 :
    Bind(build_chunks(P2, chunks, 1), LAMBDA P3 :
    Bind(P3.m.platforms[1], LAMBDA first :
    Bind([P3.m EXCEPT !.px = first.x + PX(20), !.py = first.y - PH - PX(2)],
         LAMBDA m4 :
    Bind([P3 EXCEPT !.m = [m4 EXCEPT !.cam_x = m4.px - (W * 4) \div 10,
                                     !.cam_y = m4.py - (H * 6) \div 10]],
         LAMBDA P5 :
         IF ~any_uncollected(P5.m.coins)
         THEN fresh_coins(P5, fresh, 1)
         ELSE P5))))))))

\* The draws fit one run of _build_level: the loop stops exactly after the
\* last chunk, every chunk is a possible draw, and so are the fresh coins.
ValidBuild(P, chunks, fresh) ==
    /\ \A i \in DOMAIN chunks : ValidChunk(chunks[i])
    /\ Bind(build_chunks(P, chunks, 1), LAMBDA P3 :
       Bind(build_chunks(P, SubSeq(chunks, 1, Len(chunks) - 1), 1), LAMBDA P2 :
            /\ ~(P3.m.level_extent_x < (W * 3) \div 2)
            /\ P2.m.level_extent_x < (W * 3) \div 2
            /\ ValidFresh(fresh, P3.m.level_extent_x)))

RECURSIVE max_id(_, _)
max_id(coins, i) ==
    IF i > Len(coins) THEN 0 ELSE Max(coins[i].id, max_id(coins, i + 1))

\* Lines 398-427: the constructor.  The id counter is set from the largest
\* id of the coin list after _build_level has run.
new_ImageWalkerMode(P, sidescroller, coins_data, aliased, chunks, fresh) ==
    Bind([P EXCEPT !.m = NewMode(sidescroller, coins_data, aliased)], LAMBDA P0 :
    Bind(build_level(P0, chunks, fresh), LAMBDA P1 :
         [P1 EXCEPT !.ctr = max_id(P1.m.coins, 1) + 1]))

\* Lines 54-62: the coins file as load_coins_data returns it.
load_coins_data(P) ==
    [coins |-> P.disk.coins, buff_end_time |-> P.disk.buff_end_time]

\* Lines 511-518.
start(P) == [P EXCEPT !.m.running = TRUE]

\* Lines 1124-1140 and 1142-1158.
launch_image_walker(P, sidescroller, chunks, fresh) ==
    Bind(new_ImageWalkerMode(P, sidescroller, P.app.coins_state, TRUE,
                             chunks, fresh),
         LAMBDA P1 : start([P1 EXCEPT !.app.mode = "session", !.app.exits = 0]))

\* Lines 1232-1254: a session is built as usual (random build, coins of
\* coins_state) and the exported snapshot `data` then replaces its
\* platforms, movers, spikes and orbs, the body, the clock, the score, the
\* camera (not left of or above 0) and the frontier; its exit callback only
\* drops the session.
load_imagewalker_from_json(P, data, chunks, fresh) ==
    Bind(new_ImageWalkerMode(P, data.sidescroller, P.app.coins_state, TRUE,
                             chunks, fresh),
         LAMBDA P1 :
    Bind([P1.m EXCEPT
            !.platforms = data.platforms, !.movers = data.movers,
            !.spikes = data.spikes, !.orbs = data.orbs,
            !.px = data.px, !.py = data.py, !.vx = data.vx, !.vy = data.vy,
            !.on_ground = data.on_ground,
            !.time_alive = data.time_alive, !.score = data.score,
            !.cam_x = Max(0, data.cam_x), !.cam_y = Max(0, data.cam_y),
            !.level_extent_x = data.level_extent_x,
            !.exit = "snapshot"],
         LAMBDA m2 :
         start([P1 EXCEPT !.m = m2, !.app.mode = "session", !.app.exits = 0])))

-----------------------------------------------------------------------------
(* The seeded level generator *)

\* random.Random is modelled as a linear congruential generator: a stream
\* that is a function of its state alone.  The values differ from CPython's
\* Mersenne Twister; what a layout depends on does not.
RNG_A == 75
RNG_C == 74
RNG_M == 65537

RngNext(r) == (RNG_A * r + RNG_C) % RNG_M

\* rnd.randint(a, b), rnd.random() < p/100 and rnd.uniform(a, b) from the
\* raw draw r.
randint(r, a, b) == a + (r % (b - a + 1))
chance(r, p) == (r % 100) < p
uniform(r, a, b) == a + ((b - a) * (r % 101)) \div 100

\* Variant of SeededRandom: the level is drawn from the process-wide
\* generator, whatever its state.
SeededRandom_global(idx) == gen.rng

\* Line 834: random.Random(idx + 12345), a generator of its own whose
\* state comes from the seed alone.
SeededRandom(idx) == (idx + 12345) % RNG_M

RECURSIVE level_loop(_, _, _, _, _)
\* Lines 837-843.  r is the generator's state; the draws are taken in the
\* source's order: w, gap, py, the spike roll, then sx and sw.
level_loop(r, x, platforms, width, gy) ==
    IF ~(x < width - PX(200)) THEN platforms
    ELSE LET r1 == RngNext(r)
             r2 == RngNext(r1)
             r3 == RngNext(r2)
             r4 == RngNext(r3)
             r5 == RngNext(r4)
             r6 == RngNext(r5)
             w == PX(randint(r1, 120, 320))
             gap == PX(randint(r2, 40, 160))
             py == gy + PX(randint(r3, -120, 120))
             plat == [x |-> x, y |-> py, w |-> w, h |-> PX(48), spikes |-> FALSE]
             strip == [x |-> x + uniform(r5, (2 * w) \div 10, (8 * w) \div 10),
                       y |-> py - PX(20), w |-> PX(randint(r6, 40, 80)),
                       h |-> PX(20), spikes |-> TRUE]
         IN  Bind(IF chance(r4, 22)
                  THEN <<r6, x + w + gap, platforms \o <<plat, strip>> >>
                  ELSE <<r4, x + w + gap, Append(platforms, plat)>>,
                  LAMBDA s : level_loop(s[1], s[2], s[3], width, gy))

\* Lines 833-845; lengths in units.
generate_level_by_index(idx, width, gy) ==
    LET start_platform == [x |-> 0, y |-> gy, w |-> PX(300), h |-> PX(40),
                           spikes |-> FALSE]
    IN  [platforms |-> Bind(SeededRandom(idx), LAMBDA r :
                            level_loop(r, PX(320), <<start_platform>>, width, gy)),
         finish |-> [x |-> width - PX(80), y |-> gy - PX(80), size |-> PX(34)],
         width |-> width, ground_y |-> gy, seed |-> idx]

LEVEL_WIDTH == 2400

-----------------------------------------------------------------------------
(* Sessions built from level data *)

RECURSIVE SelectSeq2(_, _, _)
\* The entries of s, in order, whose spikes flag is `flag`, as rectangles.
SelectSeq2(s, flag, i) ==
    IF i > Len(s) THEN <<>>
    ELSE IF s[i].spikes = flag
         THEN <<Rect(s[i].x, s[i].y, s[i].w, s[i].h)>> \o SelectSeq2(s, flag, i + 1)
         ELSE SelectSeq2(s, flag, i + 1)

\* Lines 848-863: the base constructor runs first (with its _build_level),
\* then the generated world is replaced by the level's.
new_LevelPlayMode(P, level_data, coins_data, chunks, fresh) ==
    LET gy == level_data.ground_y
        spawn_x == PX(100)
        spawn_y == gy - PH - PX(2)
    IN  Bind(new_ImageWalkerMode(P, FALSE, coins_data, FALSE, chunks, fresh),
             LAMBDA P1 :
        [P1 EXCEPT
           !.m.platforms = SelectSeq2(level_data.platforms, FALSE, 1),
           !.m.movers = <<>>, !.m.orbs = <<>>, !.m.springs = <<>>,
           !.m.spikes = SelectSeq2(level_data.platforms, TRUE, 1),
           !.m.level_extent_x = level_data.width,
           !.m.ground_y = gy,
           !.m.finish = <<level_data.finish>>,
           !.m.kind = "level",
           !.m.px = spawn_x, !.m.py = spawn_y,
           !.m.on_ground = TRUE, !.m.vx = 0, !.m.vy = 0,
           !.m.cam_x = Max(0, spawn_x - (W * 4) \div 10),
           !.m.cam_y = Max(0, spawn_y - (H * 6) \div 10),
           !.m.dead = FALSE, !.m.time_alive = 0, !.m.score = 0])

\* Lines 974-975 and 1212-1230: the coins are read from the coins file.
start_level(P, level_index, level_data, chunks, fresh) ==
    Bind(new_LevelPlayMode(P, level_data, load_coins_data(P), chunks, fresh),
         LAMBDA P1 : start([P1 EXCEPT !.m.level_index = level_index,
                                      !.app.mode = "session", !.app.exits = 0]))

\* Lines 1371-1411: an endless session is constructed (with its
\* _build_level), its platform list is replaced by the level's platforms,
\* the level's spike strips are appended to its spike list, the frontier is
\* the level's width and the body is put on the first platform.
\* ev.level: the platform list generate_level_by_index returned.
launch_seeded_image_walker(P, seed_int, chunks, fresh) ==
    Bind(generate_level_by_index(seed_int, PX(2400), PX(400)), LAMBDA level_data :
    Bind(new_ImageWalkerMode(P, FALSE, P.app.coins_state, TRUE, chunks, fresh),
         LAMBDA P1 :
    Bind(SelectSeq2(level_data.platforms, FALSE, 1), LAMBDA platforms :
    Bind([P1.m EXCEPT
            !.platforms = platforms,
            !.spikes = @ \o SelectSeq2(level_data.platforms, TRUE, 1),
            !.level_extent_x = level_data.width,
            !.px = IF Len(platforms) > 0 THEN platforms[1].x + PX(20) ELSE PX(100),
            !.py = IF Len(platforms) > 0 THEN platforms[1].y - PH - PX(2)
                   ELSE P1.m.ground_y - PH - PX(2)],
         LAMBDA m2 :
         start([P1 EXCEPT !.m = [m2 EXCEPT !.cam_x = m2.px - (W * 4) \div 10,
                                           !.cam_y = m2.py - (H * 6) \div 10],
                          !.app.mode = "session", !.app.exits = 0,
                          !.ev.level = level_data.platforms])))))

-----------------------------------------------------------------------------
(* Level files: json.dump and json.load of a level *)

RECURSIVE Digits(_)
\* The decimal digits of n >= 0, most significant first.
Digits(n) == IF n < 10 THEN <<n>> ELSE Append(Digits(n \div 10), n % 10)

RECURSIVE FromDigits(_, _)
\* The number written by the first i digits of ds.
FromDigits(ds, i) == IF i = 0 THEN 0 ELSE 10 * FromDigits(ds, i - 1) + ds[i]

\* Variant of json_number: the number is written without its fraction.
json_number_whole(v) ==
    [neg |-> v < 0, whole |-> Digits((2 * Abs(v)) \div 100), frac |-> <<0, 0>>]

\* The text json.dump writes for a length of v units: v/50 pixels in
\* decimal, sign, whole part and two fraction digits (1 unit = 0.02 px, so
\* two digits are exact, as repr() of the source's floats is).
json_number(v) ==
    LET n == 2 * Abs(v)
    IN  [neg |-> v < 0, whole |-> Digits(n \div 100),
         frac |-> << (n % 100) \div 10, n % 10 >>]

\* The length json.load reads from the text t, in units.
parse_number(t) ==
    LET n == 100 * FromDigits(t.whole, Len(t.whole)) + 10 * t.frac[1] + t.frac[2]
    IN  IF t.neg THEN -(n \div 2) ELSE n \div 2

\* Lines 984 and 990: json.dump(level_data, f).  The "spikes" key is
\* written only for the entries that have it (line 842).
json_dump(level_data) ==
    [platforms |-> [i \in DOMAIN level_data.platforms |->
        LET p == level_data.platforms[i]
        IN  [x |-> json_number(p.x), y |-> json_number(p.y),
             w |-> json_number(p.w), h |-> json_number(p.h),
             spikes |-> IF p.spikes THEN <<"true">> ELSE <<>>]],
     finish |-> [x |-> json_number(level_data.finish.x),
                 y |-> json_number(level_data.finish.y),
                 size |-> json_number(level_data.finish.size)],
     width |-> json_number(level_data.width),
     ground_y |-> json_number(level_data.ground_y),
     seed |-> Digits(level_data.seed)]

\* Lines 999-1000 and 1012-1013: json.load(f).  An entry's spikes flag is
\* what p.get("spikes") gives (lines 853 and 1394).
json_load(text) ==
    [platforms |-> [i \in DOMAIN text.platforms |->
        LET p == text.platforms[i]
        IN  [x |-> parse_number(p.x), y |-> parse_number(p.y),
             w |-> parse_number(p.w), h |-> parse_number(p.h),
             spikes |-> Len(p.spikes) = 1]],
     finish |-> [x |-> parse_number(text.finish.x),
                 y |-> parse_number(text.finish.y),
                 size |-> parse_number(text.finish.size)],
     width |-> parse_number(text.width),
     ground_y |-> parse_number(text.ground_y),
     seed |-> FromDigits(text.seed, Len(text.seed))]

\* Lines 971-973 and 978-979: the generated level, or the one imported for
\* the index when there is one.
selected_level(P, lvl) ==
    IF Len(P.app.imported_levels[lvl]) = 1 THEN P.app.imported_levels[lvl][1]
    ELSE generate_level_by_index(lvl, PX(LEVEL_WIDTH), PX(ground_y))

\* Lines 977-991: the selected level is written to the level file of lvl.
export_level(P, lvl) ==
    Bind(selected_level(P, lvl), LAMBDA level_data :
         [P EXCEPT !.disk.level_files[lvl] = << json_dump(level_data) >>])

\* Lines 992-1016: the level file the player picked (the one exported for
\* src) is read into imported_levels[lvl]; nothing happens without a file.
import_level(P, lvl, src) ==
    IF Len(P.disk.level_files[src]) = 0 THEN P
    ELSE [P EXCEPT !.app.imported_levels[lvl] =
                       << json_load(P.disk.level_files[src][1]) >>]

-----------------------------------------------------------------------------
(* Actions *)

Pack == [m |-> mode, app |-> app, ctr |-> COIN_ID_COUNTER, disk |-> disk,
         now |-> now, ev |-> ev]

Commit(P) ==
    /\ mode' = P.m
    /\ app' = P.app
    /\ COIN_ID_COUNTER' = P.ctr
    /\ disk' = P.disk
    /\ now' = P.now
    /\ ev' = P.ev

\* Bounds of the model.
MaxFrames == 2
MaxDtSteps == 2
MaxSessions == 2
MaxLevel == 2
MaxProcesses == 2
MaxCalls == 3
MaxSeed == 3
MaxDraws == 2
MaxStaleTicks == 2
MaxLoads == 2

\* Tick durations: clock.tick(60) / 1000, as multiples of 20 ms.
Dts == { 20 * k : k \in 1..MaxDtSteps }

\* The program state at process start with the given save files: no
\* session, coins_state loaded from the coins file (line 1041), the class
\* attribute COIN_ID_COUNTER at 0 (line 396), no library image loaded
\* (line 133), no level imported in the
\* selector (line 919).
ProcessStart(files, t) ==
    [m |-> NewMode(FALSE, [coins |-> <<>>, buff_end_time |-> 0], FALSE),
     app |-> [mode |-> "none",
              coins_state |-> [coins |-> files.coins,
                               buff_end_time |-> files.buff_end_time],
              exits |-> 0,
              lib |-> <<>>,
              imported_levels |-> [lvl \in 1..MaxLevel |-> <<>>]],
     ctr |-> 0,
     disk |-> files,
     now |-> t,
     ev |-> FirstEvents]

\* No save file exists; level_files[lvl] is the level file exported for
\* lvl, a sequence of length 0 or 1 holding the text json.dump wrote.
EmptyFiles == [coins |-> <<>>, buff_end_time |-> 0, completed |-> {},
               coin_writes |-> 0, level_files |-> [lvl \in 1..MaxLevel |-> <<>>]]

\* One iteration of run's loop with an active session (lines 1415-1417 and
\* 1487-1513): adv ms of wall-clock time have passed since the last one.
Frame(events, dt, adv, wait, ch) ==
    /\ app.mode = "session"
    /\ ev.frames < MaxFrames
    /\ ValidChunk(ch)
    /\ \E P0 \in { [Pack EXCEPT !.now = @ + adv] } :
          \E P1 \in { run_frame(P0, events, dt, wait, ch) } : Commit(P1)
    /\ UNCHANGED <<gen, hist>>

-----------------------------------------------------------------------------
(* Sessions in mid-play *)

RECURSIVE advance_steps(_, _)
\* A mover after k ticks of 20 ms.
advance_steps(mv, k) ==
    IF k = 0 THEN mv
    ELSE Bind(advance_mover(mv, 20), LAMBDA mv1 : advance_steps(mv1, k - 1))

RECURSIVE extend_from(_, _, _)
extend_from(P, chunks, i) ==
    IF i > Len(chunks) THEN P
    ELSE Bind(add_level_chunk(P, chunks[i]),
              LAMBDA P1 : extend_from(P1, chunks, i + 1))

\* An endless session some time into play: the world is the one
\* _build_level made from the draws sc.chunks and sc.fresh and play has
\* extended by the chunks sc.extra (line 687), every mover has
\* run sc.mover_steps ticks, and the body and the camera are where play (or
\* a snapshot loaded by _load_imagewalker_from_json, lines 1241-1247) has
\* put them: at (sc.px, sc.py) with velocity (sc.vx, sc.vy), the camera
\* sc.cam_lag behind its target.  The body is clear of every platform,
\* mover and spike and above the kill line.
\* MidPlayWith: the same in a process whose library images are lib (set
\* in the menu before the session was launched, lines 1107-1110).
MidPlayWith(lib, sc) ==
    Bind([ProcessStart(sc.files, sc.now) EXCEPT !.app.lib = lib], LAMBDA Ps :
    Bind(launch_image_walker(Ps, sc.side, sc.chunks, sc.fresh), LAMBDA P0 :
    Bind(extend_from(P0, sc.extra, 1), LAMBDA P1 :
         [P1 EXCEPT
            !.m.px = sc.px, !.m.py = sc.py, !.m.vx = sc.vx, !.m.vy = sc.vy,
            !.m.on_ground = sc.on_ground,
            !.m.cam_x = sc.px - (W * 4) \div 10 - sc.cam_lag,
            !.m.movers = [i \in DOMAIN P1.m.movers |->
                             advance_steps(P1.m.movers[i], sc.mover_steps)]])))

MidPlay(sc) == MidPlayWith(<<>>, sc)

ValidMidPlayWith(lib, sc) ==
    /\ Bind(ProcessStart(sc.files, sc.now), LAMBDA Ps :
       Bind([Ps EXCEPT !.m.level_extent_x = PX(300)], LAMBDA P0 :
            ValidBuild(P0, sc.chunks, sc.fresh)))
    /\ \A i \in DOMAIN sc.extra : ValidChunk(sc.extra[i])
    /\ Bind(MidPlayWith(lib, sc).m, LAMBDA m :
       Bind(Solids(m), LAMBDA solids :
            /\ \A i \in DOMAIN solids : ~BodyHits(m, solids[i])
            /\ \A i \in DOMAIN m.spikes : ~BodyHits(m, m.spikes[i])
            /\ m.py <= PX(kill_y)))

ValidMidPlay(sc) == ValidMidPlayWith(<<>>, sc)

\* The state is P; the process has started `sessions` sessions so far.
StartsWith(P, sessions) ==
    /\ mode = P.m
    /\ app = P.app
    /\ COIN_ID_COUNTER = P.ctr
    /\ disk = P.disk
    /\ now = P.now
    /\ ev = P.ev
    /\ gen = [rng |-> 0, draws |-> 0, calls |-> <<>>]
    /\ hist = [sessions |-> sessions, processes |-> 1, seeded |-> <<>>,
               loads |-> <<>>, stale_ticks |-> 0]

StartsAt(P) == StartsWith(P, 1)

\* The fresh coins drawn when a build finds no uncollected coin.
FreshFar == << [x |-> 1000, up |-> 100], [x |-> 1200, up |-> 100],
               [x |-> 1400, up |-> 100] >>

PlainChunk == [w |-> 320, gap |-> 200, dy |-> 0, orb |-> <<>>, mover |-> <<>>,
               spike |-> FALSE, coin |-> <<>>, spring |-> <<>>]

-----------------------------------------------------------------------------
(* Collisions: a body on and around a mover next to a higher platform *)

MoverChunk == [w |-> 180, gap |-> 80, dy |-> 0, orb |-> <<>>,
               mover |-> << [off |-> 60, w |-> 80, up |-> 60, vx |-> 120,
                             range |-> 220] >>,
               spike |-> FALSE, coin |-> <<>>, spring |-> <<>>]

HighChunk == [PlainChunk EXCEPT !.dy = -100]

CollideWorld == << MoverChunk, HighChunk, PlainChunk >>

\* The mover of MoverChunk after k ticks of 20 ms.
MoverAt(k) ==
    advance_steps([x |-> PX(360), y |-> PX(340), w |-> PX(80), h |-> PX(20),
                   vx |-> 120, home |-> PX(360), range |-> PX(220)], k)

CollideScenarios ==
    { [files |-> EmptyFiles, now |-> 0, side |-> FALSE,
       chunks |-> CollideWorld, fresh |-> FreshFar, extra |-> <<PlainChunk>>,
       px |-> MoverAt(k).x + PX(off), py |-> PX(340) - PH - PX(up),
       vx |-> vx, vy |-> vy, on_ground |-> (up = 0 /\ vy = 0),
       cam_lag |-> 0, mover_steps |-> k] :
      k \in {0, 42, 43}, off \in {-30, 20, 60}, up \in {0, 4, 60},
      vx \in {-120, 0, 360}, vy \in {-300, 0, 300} }

CollideEvents == { <<>>, <<"left_down">>, <<"right_down">>, <<"jump_down">> }

InitCollide ==
    \E sc \in CollideScenarios :
        ValidMidPlay(sc) /\ \E P \in { MidPlay(sc) } : StartsAt(P)

CollideFrame ==
    \E events \in CollideEvents, dt \in Dts :
        Frame(events, dt, dt, 0, PlainChunk)

NextCollide == CollideFrame

SpecCollide == InitCollide /\ [][NextCollide]_vars

\* The body overlaps a static platform with positive area.
InPlatform == \E i \in DOMAIN mode.platforms : BodyHits(mode, mode.platforms[i])

\* C2: at the end of every tick the body rectangle has no positive-area
\* overlap with any static platform.
C2_NoPenetration == ev.ticked => ~InPlatform

-----------------------------------------------------------------------------
(* Jumps: a body on a mover that passes through a jump orb, and on plain   *)
(* ground                                                                  *)

OrbChunk(typ) ==
    [w |-> 320, gap |-> 200, dy |-> 0,
     orb |-> << [off |-> 160, up |-> 100, typ |-> typ] >>,
     mover |-> << [off |-> 100, w |-> 120, up |-> 60, vx |-> 120, range |-> 100] >>,
     spike |-> FALSE, coin |-> <<>>, spring |-> <<>>]

\* The body stands on the first platform (place 1, no orb in reach), stands
\* on the mover of the second platform under its orb (place 2), or is in
\* the air at the orb's height (place 3).
JumpScenarios ==
    { [files |-> EmptyFiles, now |-> 0, side |-> FALSE,
       chunks |-> << OrbChunk(typ), PlainChunk, PlainChunk >>,
       fresh |-> FreshFar, extra |-> <<>>,
       px |-> IF place = 1 THEN PX(100 + off) ELSE PX(400 + off),
       py |-> IF place = 1 THEN PX(400) - PH
              ELSE IF place = 2 THEN PX(340) - PH ELSE PX(340) - PH - PX(20),
       vx |-> 0, vy |-> IF place = 3 THEN vy ELSE 0, on_ground |-> (place # 3),
       cam_lag |-> 0, mover_steps |-> 0] :
      typ \in {"small", "normal", "high"}, place \in 1..3,
      off \in {0, 30, 60}, vy \in {-200, 200} }

JumpEvents == { <<>>, <<"jump_down">>, <<"jump_down", "jump_up">>, <<"right_down">> }

InitJump ==
    \E sc \in JumpScenarios :
        ValidMidPlay(sc) /\ \E P \in { MidPlay(sc) } : StartsAt(P)

JumpFrame ==
    \E events \in JumpEvents, dt \in Dts : Frame(events, dt, dt, 0, PlainChunk)

NextJump == JumpFrame

SpecJump == InitJump /\ [][NextJump]_vars

\* C9: a jump requested on the ground sets vy to -jump_speed * 1.35 when a
\* 'high' orb overlaps the body and to -jump_speed * 1.0 when no orb does.
C9_JumpMultiplier ==
    (ev.ticked /\ ev.jump_req /\ ev.jump_ground) =>
        /\ ("high" \in ev.jump_types => 100 * ev.jump_vy = -(jump_speed * 135))
        /\ (ev.jump_types = {} => ev.jump_vy = -jump_speed)

C9_Witness ==
    /\ ev.ticked /\ ev.jump_req /\ ev.jump_ground
    /\ "high" \in ev.jump_types
    /\ ev.jump_vy = -783

\* C37: every jump key press delivered in a tick's events while the body is
\* on the ground produces a jump in that tick's update, whatever else the
\* batch holds: vy after the jump step is the jump impulse, not the value
\* gravity left.
C37_EveryRequestJumps ==
    (ev.ticked /\ ev.jump_key /\ ev.jump_ground) =>
        /\ ev.jump_vy < 0
        /\ ev.jump_vy # ev.vy_gravity

-----------------------------------------------------------------------------
(* Springs: a body on a platform at ground height, on its spring, with a   *)
(* mover passing just above its head                                       *)

SpringChunk(up) ==
    [w |-> 320, gap |-> 200, dy |-> 0, orb |-> <<>>,
     mover |-> << [off |-> 100, w |-> 120, up |-> up, vx |-> 120, range |-> 100] >>,
     spike |-> FALSE, coin |-> <<>>, spring |-> << [off |-> 150] >>]

SpringScenarios ==
    { [files |-> EmptyFiles, now |-> 0, side |-> FALSE,
       chunks |-> << SpringChunk(up), PlainChunk, PlainChunk >>,
       fresh |-> FreshFar, extra |-> <<>>,
       px |-> PX(300 + off), py |-> PX(400) - PH - PX(high),
       vx |-> 0, vy |-> vy, on_ground |-> (high = 0 /\ vy = 0),
       cam_lag |-> 0, mover_steps |-> 0] :
      up \in {68, 140}, off \in {100, 140, 200}, high \in {0, 1, 30},
      vy \in {-100, 0, 50} }

SpringEvents == { <<>>, <<"jump_down">>, <<"left_down">> }

InitSpring ==
    \E sc \in SpringScenarios :
        ValidMidPlay(sc) /\ \E P \in { MidPlay(sc) } : StartsAt(P)

SpringFrame ==
    \E events \in SpringEvents, dt \in Dts : Frame(events, dt, dt, 0, PlainChunk)

NextSpring == SpringFrame

SpecSpring == InitSpring /\ [][NextSpring]_vars

\* C10: a falling body (vy >= 0) that overlaps a spring at the hazard phase
\* is launched (vy < 0 afterwards); the launch fires exactly once for that
\* entry into overlap, and at most once per tick.
C10_LaunchOncePerEntry ==
    ev.ticked =>
        /\ ev.launches <= 1
        /\ (ev.launches = 1 => mode.vy < 0)
        /\ ev.entry_launches <= 1


\* C26: at the end of every tick on_ground holds if and only if the Y-axis
\* resolution of that tick found the body overlapping a platform or mover
\* while moving down (vy > 0); a head collision (vy < 0) zeroes vy without
\* setting on_ground; on_ground never carries over from the tick before.
C26_GroundFlag ==
    ev.ticked =>
        /\ mode.on_ground <=> (ev.y_overlap /\ ev.y_vy > 0)
        /\ (ev.y_overlap /\ ev.y_vy < 0) =>
              (ev.vy_resolved = 0 /\ ~mode.on_ground)

\* A body that stood on the ground jumps into the mover above its head.
C26_Witness ==
    /\ ev.ticked /\ ev.jump_ground
    /\ ev.y_overlap /\ ev.y_vy < 0
    /\ ev.vy_resolved = 0 /\ ~mode.on_ground

-----------------------------------------------------------------------------
(* The frontier: a camera that follows a running body across the point     *)
(* where a chunk is due, and a camera at rest well behind the frontier     *)

WideChunk == [PlainChunk EXCEPT !.gap = 80]

\* The shortest chunk line 472 can draw.
SmallChunk == [PlainChunk EXCEPT !.w = 180, !.gap = 80]

MinChunkSpan == 180 + 80

\* Three wide chunks put the frontier at 1500; play may have gone further
\* right before (sc.extra) and come back.  The body stands on the platform
\* at x = 300..620.
FrontierScenarios ==
    { [files |-> EmptyFiles, now |-> 0, side |-> side,
       chunks |-> << WideChunk, WideChunk, WideChunk >>,
       fresh |-> FreshFar, extra |-> extra,
       px |-> PX(px), py |-> PX(400) - PH, vx |-> vx, vy |-> 0,
       on_ground |-> TRUE, cam_lag |-> PX(lag), mover_steps |-> 0] :
      side \in BOOLEAN,
      extra \in { <<>>, << SmallChunk >>, << WideChunk, PlainChunk >> },
      px \in {390, 399, 400, 420}, lag \in {0, 20, 40}, vx \in {0, 360} }

\* Play leaves the frontier at least 1.5 widths right of the camera's left
\* edge (line 456 at the start, line 686 in each tick).
FrontierAhead(m) == m.level_extent_x >= m.cam_x + (W * 3) \div 2

FrontierEvents == { <<>>, <<"right_down">> }

InitFrontier ==
    \E sc \in FrontierScenarios :
        /\ ValidMidPlay(sc)
        /\ \E P \in { MidPlay(sc) } : FrontierAhead(P.m) /\ StartsAt(P)

FrontierFrame ==
    \E events \in FrontierEvents, dt \in Dts, ch \in {SmallChunk, PlainChunk} :
        Frame(events, dt, dt, 0, ch)

NextFrontier == FrontierFrame

SpecFrontier == InitFrontier /\ [][NextFrontier]_vars

-----------------------------------------------------------------------------
(* The buff: a body that runs into a coin, and the clock running on to the *)
(* end of the buff                                                         *)

FreshNear == << [x |-> 80, up |-> 40], [x |-> 1200, up |-> 100],
                [x |-> 1400, up |-> 100] >>

\* The coins file of an earlier run, its buff running until 30 s.
BuffedFiles == [EmptyFiles EXCEPT !.buff_end_time = 30000]

BuffScenarios ==
    { [files |-> files, now |-> t, side |-> FALSE,
       chunks |-> << PlainChunk, PlainChunk, PlainChunk >>,
       fresh |-> FreshNear, extra |-> <<>>,
       px |-> PX(px), py |-> PX(400) - PH, vx |-> vx, vy |-> 0,
       on_ground |-> TRUE, cam_lag |-> 0, mover_steps |-> 0] :
      files \in {EmptyFiles, BuffedFiles}, t \in {1000, 29980},
      px \in {20, 30, 33}, vx \in {0, 360} }

\* No uncollected coin overlaps the body: a tick collects one that does.
NoCoinInReach(m) == \A i \in DOMAIN m.coins : ~CoinTouched(m, m.coins[i])

InitBuff ==
    \E sc \in BuffScenarios :
        /\ ValidMidPlay(sc)
        /\ \E P \in { MidPlay(sc) } : NoCoinInReach(P.m) /\ StartsAt(P)

\* How far the wall clock runs between two frames, in ms.
BuffAdvances == {20, 59980, 60000}

BuffFrame ==
    \E events \in { <<>>, <<"right_down">> }, dt \in Dts, adv \in BuffAdvances :
        Frame(events, dt, adv, 0, PlainChunk)

NextBuff == BuffFrame

SpecBuff == InitBuff /\ [][NextBuff]_vars

\* C8: collecting a coin at time T sets buff_end_time to T + 60 s; the score
\* multiplier a tick uses at time t is exactly 2 for T <= t < T + 60 s and
\* exactly 1 for t >= T + 60 s.
C8_BuffWindow ==
    /\ ev.collected >= 0 =>
          mode.buff_end_time = ev.last_collect + 1000 * BUFF_DURATION_SECONDS
    /\ (ev.ticked /\ ev.last_collect >= 0) =>
          /\ ev.score_time >= ev.last_collect
          /\ ev.score_time < ev.last_collect + 1000 * BUFF_DURATION_SECONDS
                => ev.bonus_mult = 2
          /\ ev.score_time >= ev.last_collect + 1000 * BUFF_DURATION_SECONDS
                => ev.bonus_mult = 1

C8_Witness ==
    /\ ev.ticked /\ ev.last_collect >= 0 /\ ev.collected < 0
    /\ ev.score_time = ev.last_collect + 1000 * BUFF_DURATION_SECONDS
    /\ ev.bonus_mult = 1


\* The multiplier of the scoring step: 2 while the buff is active.
BuffMultiplier == IF ev.score_time < mode.buff_end_time THEN 2 ELSE 1

\* x*0.1 + elapsedTime*3 at the end of the tick, in thousandths.
ScoreSum == 2 * mode.px + 3 * mode.time_alive

\* C21 as stated: at the end of every tick the score is
\* max(previousScore, floor((x*0.1 + elapsedTime*3) * buffMultiplier)).
C21_AsStated ==
    ev.ticked =>
        mode.score = Max(ev.score_before, (ScoreSum * BuffMultiplier) \div 1000)

\* C21, amended: at the end of every tick the score is
\* max(previousScore, int(x*0.1 + elapsedTime*3) * buffMultiplier), the sum
\* being truncated to a whole number before it is multiplied.
C21_ScoreRule ==
    ev.ticked =>
        mode.score = Max(ev.score_before, TruncDiv(ScoreSum, 1000) * BuffMultiplier)

C21_Witness ==
    /\ ev.ticked
    /\ BuffMultiplier = 2
    /\ ScoreSum % 1000 >= 500
    /\ mode.score > ev.score_before

-----------------------------------------------------------------------------
(* Pickups: a body that walks into a coin, or jumps into two coins one      *)
(* above the other                                                         *)

\* Two of the fresh coins are drawn at the same x, 64 px apart in height:
\* the body (48 px high, coin radius 10) can overlap both.
FreshStack == << [x |-> 80, up |-> 40], [x |-> 80, up |-> 104],
                 [x |-> 1400, up |-> 100] >>

PickupScenarios ==
    { [files |-> EmptyFiles, now |-> 1000, side |-> FALSE,
       chunks |-> << PlainChunk, PlainChunk, PlainChunk >>,
       fresh |-> fresh, extra |-> <<>>,
       px |-> PX(px), py |-> PX(place[1]), vx |-> vx, vy |-> place[2],
       on_ground |-> place[3], cam_lag |-> 0, mover_steps |-> 0] :
      fresh \in {FreshNear, FreshStack}, px \in {20, 30, 33}, vx \in {0, 360},
      place \in { <<400 - ph, 0, TRUE>>, <<304, -30, FALSE>>, <<304, 0, FALSE>> } }

InitPickup ==
    \E sc \in PickupScenarios :
        /\ ValidMidPlay(sc)
        /\ \E P \in { MidPlay(sc) } : NoCoinInReach(P.m) /\ StartsAt(P)

PickupFrame ==
    \E events \in { <<>>, <<"right_down">> }, dt \in Dts :
        Frame(events, dt, dt, 0, PlainChunk)

NextPickup == PickupFrame

SpecPickup == InitPickup /\ [][NextPickup]_vars

\* C16: at the end of a tick in which a coin was collected, the coins file
\* records that coin as collected and holds the new buff end time.
C16_WriteThrough ==
    (ev.ticked /\ ev.collected >= 0) =>
        /\ \E i \in DOMAIN disk.coins :
              disk.coins[i].id = ev.collected /\ disk.coins[i].collected
        /\ disk.buff_end_time = mode.buff_end_time
        /\ disk.buff_end_time = BuffEnd(ev.last_collect)

C16_Witness ==
    /\ ev.ticked /\ ev.collected >= 0
    /\ app.mode = "session" /\ mode.running
    /\ disk.coins = mode.coins
    /\ disk.buff_end_time = BuffEnd(now)

\* C38: the score never decreases during a session: over every tick the
\* score at the end is at least the score at the start, and a tick in which
\* a coin is collected raises the score by at least 150.
C38_ScoreMonotone ==
    [][(ev'.ticked /\ ev'.frames = ev.frames + 1) =>
          /\ mode'.score >= mode.score
          /\ ev'.collected >= 0 => mode'.score >= mode.score + 150]_vars

\* A tick in which a coin was collected and the score rose by exactly the
\* coin's 150: the distance and time term stayed below it.
C38_Witness ==
    /\ ev.ticked /\ ev.collected >= 0
    /\ mode.score = ev.score_before
    /\ mode.score >= 150
    /\ TruncDiv(ScoreSum, 1000) * BuffMultiplier < mode.score

\* C19: of the uncollected coins the body overlaps in a tick only the first
\* in list order is collected; the others are uncollected when the tick ends.
C19_OneCoinPerTick ==
    (ev.ticked /\ ev.coin_hits # {}) =>
        \E first \in ev.coin_hits :
            /\ \A k \in ev.coin_hits : first <= k
            /\ mode.coins[first].collected
            /\ \A k \in ev.coin_hits \ {first} : ~mode.coins[k].collected

C19_Witness ==
    /\ ev.ticked /\ ev.coin_hits = {1, 2}
    /\ mode.coins[1].collected /\ ~mode.coins[2].collected

-----------------------------------------------------------------------------
(* Levels: the selector starts a generated level; the body reaches the     *)
(* Finish square                                                           *)

BuildDraws == << PlainChunk, PlainChunk, PlainChunk >>

\* Line 971: the level the selector generates for index lvl.
GeneratedLevel(lvl) == generate_level_by_index(lvl, PX(LEVEL_WIDTH), PX(ground_y))

\* A level some time into play, the body in the air.  sc.extra: the chunks
\* line 687 has added so far (the camera has been beyond the point where
\* line 686 asks for one).
MidLevel(sc) ==
    Bind(ProcessStart(EmptyFiles, 0), LAMBDA Ps :
    Bind(GeneratedLevel(sc.lvl), LAMBDA level_data :
    Bind(start_level(Ps, sc.lvl, level_data, BuildDraws, FreshFar), LAMBDA P0 :
    Bind(extend_from(P0, sc.extra, 1), LAMBDA P1 :
         [P1 EXCEPT !.m.px = sc.px, !.m.py = sc.py, !.m.vx = sc.vx,
                    !.m.vy = sc.vy, !.m.on_ground = FALSE,
                    !.m.cam_x = sc.px - (W * 4) \div 10,
                    !.m.time_alive = 20000]))))

\* The same with a level the player imported for sc.lvl (lines 992-1016
\* take any JSON file; line 972 then starts that level).
MidImportedLevel(level_data, sc) ==
    Bind([ProcessStart(EmptyFiles, 0)
             EXCEPT !.app.imported_levels[sc.lvl] = << level_data >>],
         LAMBDA Ps :
    Bind(start_level(Ps, sc.lvl, selected_level(Ps, sc.lvl), BuildDraws, FreshFar),
         LAMBDA P0 :
    Bind(extend_from(P0, sc.extra, 1), LAMBDA P1 :
         [P1 EXCEPT !.m.px = sc.px, !.m.py = sc.py, !.m.vx = sc.vx,
                    !.m.vy = sc.vy, !.m.on_ground = FALSE,
                    !.m.cam_x = sc.px - (W * 4) \div 10,
                    !.m.time_alive = 20000])))

\* The body is short of the Finish square (the camera is far beyond the
\* end of the level data: two chunks have been added); or it is half way
\* through the level, the camera where line 686 is about to ask for the
\* first chunk, in mid-jump or falling past the platforms to the kill line.
LevelScenarios ==
    { [lvl |-> lvl, px |-> PX(px), py |-> PX(py), vx |-> vx, vy |-> vy,
       extra |-> << PlainChunk, PlainChunk >>] :
      lvl \in 1..MaxLevel, px \in {2270, 2280}, py \in {270, 300},
      vx \in {0, 360}, vy \in {0, 200} }
    \cup
    { [lvl |-> lvl, px |-> PX(px), py |-> PX(py), vx |-> vx, vy |-> vy,
       extra |-> <<>>] :
      lvl \in 1..MaxLevel, px \in {1290, 1300}, py \in {270, 1190},
      vx \in {0, 360}, vy \in {0, 600} }

ClearOfWorld(m) ==
    /\ Bind(Solids(m), LAMBDA solids :
            \A i \in DOMAIN solids : ~BodyHits(m, solids[i]))
    /\ \A i \in DOMAIN m.spikes : ~BodyHits(m, m.spikes[i])
    /\ ~touches_finish(m)

InitLevel ==
    \/ \E P \in { ProcessStart(EmptyFiles, 0) } : StartsWith(P, 0)
    \/ \E sc \in LevelScenarios :
          \E P \in { MidLevel(sc) } :
             ClearOfWorld(P.m) /\ FrontierAhead(P.m) /\ StartsAt(P)

\* Lines 968-975: a click on a level in the selector.
StartLevel(lvl) ==
    /\ app.mode = "none"
    /\ hist.sessions < MaxSessions
    /\ \E P0 \in { [Pack EXCEPT !.ev = FirstEvents] },
          level_data \in { selected_level(Pack, lvl) } :
          \E P1 \in { start_level(P0, lvl, level_data, BuildDraws, FreshFar) } :
             Commit(P1)
    /\ hist' = [hist EXCEPT !.sessions = @ + 1]
    /\ UNCHANGED gen

LevelFrame ==
    \E events \in { <<>>, <<"right_down">>, <<"escape">> }, dt \in Dts,
       wait \in {0, 1000} :
        Frame(events, dt, dt, wait, PlainChunk)

\* Lines 528-529: tick is called on the session object after the session
\* has ended with the body dead.
StaleTick(events, dt) ==
    /\ app.mode = "none"
    /\ mode.dead
    /\ hist.stale_ticks < MaxStaleTicks
    /\ \E P0 \in { [Pack EXCEPT !.ev = NextEvents(ev)] } :
          \E P1 \in { tick(P0, events, dt, 0, PlainChunk) } : Commit(P1)
    /\ hist' = [hist EXCEPT !.stale_ticks = @ + 1]
    /\ UNCHANGED gen

NextLevel ==
    \/ \E lvl \in 1..MaxLevel : StartLevel(lvl)
    \/ LevelFrame
    \/ \E events \in { <<>>, <<"right_down">>, <<"jump_down">> }, dt \in Dts :
          StaleTick(events, dt)

SpecLevel == InitLevel /\ [][NextLevel]_vars

\* C5: when a level session ends because the body reached the Finish
\* square, the level's index is in the persisted completed set, written
\* exactly once, by the time control is back at the menu.
C5_CompletedPersisted ==
    (ev.finished /\ app.mode = "none") =>
        /\ mode.level_index \in disk.completed
        /\ ev.progress_writes = 1

\* C12: during a level session the platform and spike lists never change,
\* and no tick generates a chunk or adds a mover, orb or spring.
C12_LevelGeometryFixed ==
    [][ (app.mode = "session" /\ mode.kind = "level" /\ app'.mode = "session")
           => /\ mode'.platforms = mode.platforms
              /\ mode'.spikes = mode.spikes
              /\ mode'.movers = mode.movers
              /\ mode'.orbs = mode.orbs
              /\ mode'.springs = mode.springs
              /\ ~ev'.chunk ]_vars

\* C13: constructing a level session adds no coin: the session's coin list
\* is the one load_coins_data read (line 974) and the coins file is as it
\* was.
C13_LevelStartAddsNoCoin ==
    [][ (app.mode = "none" /\ app'.mode = "session" /\ mode'.kind = "level")
           => /\ mode'.coins = disk.coins
              /\ disk'.coins = disk.coins ]_vars

\* C15: once the body is dead the session is not running, and any later
\* call of tick on it returns False (no update runs) and leaves dead, the
\* body's position and velocity, the score and the coin list as they are.
C15_DeadIsTerminal ==
    /\ [](mode.dead => ~mode.running)
    /\ [][ (mode.dead /\ hist'.sessions = hist.sessions)
             => /\ mode'.dead /\ ~mode'.running /\ ~ev'.ticked
                /\ mode'.px = mode.px /\ mode'.py = mode.py
                /\ mode'.vx = mode.vx /\ mode'.vy = mode.vy
                /\ mode'.score = mode.score
                /\ mode'.coins = mode.coins ]_vars

\* tick was called with a key press on a session whose body had died.
C15_Witness ==
    /\ mode.dead /\ ~mode.running /\ app.mode = "none"
    /\ hist.stale_ticks = MaxStaleTicks
    /\ ~ev.ticked

\* C17: whenever a session ends (death, finish, Escape) the coins file has
\* been written in the ending frame, and holds the session's coin list and
\* buff end time, before the exit callback runs.
C17_SavedBeforeExit == ev.exit_seen => ev.exit_flushed

\* The body reached the Finish square and the session was left.
C17_Witness ==
    /\ ev.finished /\ ev.exit_seen /\ ev.exit_flushed
    /\ app.mode = "none" /\ ~mode.running
    /\ disk.coins = mode.coins /\ Len(disk.coins) > 0

-----------------------------------------------------------------------------
(* Export and import in the level selector, and the levels started from it *)

InitExport == \E P \in { ProcessStart(EmptyFiles, 0) } : StartsWith(P, 0)

\* Lines 977-991: a click on the E button of level lvl.
Export(lvl) ==
    /\ app.mode = "none"
    /\ \E P1 \in { export_level(Pack, lvl) } : Commit(P1)
    /\ UNCHANGED <<gen, hist>>

\* Lines 992-1016: a click on the I button of level lvl; the player picks
\* the file that was exported for level src.
Import(lvl, src) ==
    /\ app.mode = "none"
    /\ Len(disk.level_files[src]) = 1
    /\ \E P1 \in { import_level(Pack, lvl, src) } : Commit(P1)
    /\ UNCHANGED <<gen, hist>>

ExportFrame ==
    \E events \in { <<"right_down">>, <<"escape">> }, dt \in Dts :
        Frame(events, dt, dt, 0, PlainChunk)

NextExport ==
    \/ \E lvl \in 1..MaxLevel : Export(lvl)
    \/ \E lvl, src \in 1..MaxLevel : Import(lvl, src)
    \/ \E lvl \in 1..MaxLevel : StartLevel(lvl)
    \/ ExportFrame

SpecExport == InitExport /\ [][NextExport]_vars

\* The seed of the level a click on lvl starts.
SeedOf(lvl) ==
    IF Len(app.imported_levels[lvl]) = 1 THEN app.imported_levels[lvl][1].seed
    ELSE lvl

-----------------------------------------------------------------------------
(* Coins across sessions and processes: sessions are launched from the     *)
(* menu, played, left with Escape; the process is restarted                *)

CoinChunk == [PlainChunk EXCEPT !.coin = << [off |-> 100, up |-> 60] >>]

\* Two of the fresh coins are drawn 20 px apart.
FreshClose == << [x |-> 80, up |-> 40], [x |-> 100, up |-> 40],
                 [x |-> 1200, up |-> 100] >>

CoinBuilds == { BuildDraws, << CoinChunk, PlainChunk, CoinChunk >> }

CoinFresh == { FreshFar, FreshClose }

\* A first session in mid-play, the body running towards the coin at x = 80.
CoinScenarios ==
    { [files |-> EmptyFiles, now |-> 0, side |-> FALSE,
       chunks |-> chunks, fresh |-> FreshNear, extra |-> <<>>,
       px |-> PX(30), py |-> PX(400) - PH, vx |-> 360, vy |-> 0,
       on_ground |-> TRUE, cam_lag |-> 0, mover_steps |-> 0] :
      chunks \in CoinBuilds }

InitCoins ==
    \/ \E P \in { ProcessStart(EmptyFiles, 0) } : StartsWith(P, 0)
    \/ \E sc \in CoinScenarios :
          /\ ValidMidPlay(sc)
          /\ \E P \in { MidPlay(sc) } : NoCoinInReach(P.m) /\ StartsAt(P)

\* Lines 1124-1140: the menu launches an endless session on coins_state.
Launch(chunks, fresh) ==
    /\ app.mode = "none"
    /\ hist.sessions < MaxSessions
    /\ \E P0 \in { [Pack EXCEPT !.ev = FirstEvents] } :
          /\ ValidBuild([P0 EXCEPT !.m = [NewMode(FALSE, P0.app.coins_state, TRUE)
                                            EXCEPT !.level_extent_x = PX(300)]],
                        chunks, fresh)
          /\ \E P1 \in { launch_image_walker(P0, FALSE, chunks, fresh) } : Commit(P1)
    /\ hist' = [hist EXCEPT !.sessions = @ + 1]
    /\ UNCHANGED gen

\* Lines 1171-1176: quit writes coins_state to the coins file.
quit(P) ==
    [P EXCEPT !.disk.coins = P.app.coins_state.coins,
              !.disk.buff_end_time = P.app.coins_state.buff_end_time,
              !.disk.coin_writes = @ + 1]

\* Lines 1171-1176 and 1025-1049: the application is quit at the menu and
\* started again; the new process has the class attribute at 0 (line 396)
\* and reads the coins file (line 1041).
Restart ==
    /\ app.mode = "none"
    /\ hist.processes < MaxProcesses
    /\ \E P0 \in { quit(Pack) } :
          \E P1 \in { [ProcessStart(P0.disk, P0.now) EXCEPT !.ev = P0.ev] } :
             Commit(P1)
    /\ hist' = [hist EXCEPT !.processes = @ + 1]
    /\ UNCHANGED gen

CoinFrame ==
    \E events \in { <<"right_down">>, <<"escape">> }, dt \in Dts :
        Frame(events, dt, dt, 0, CoinChunk)

NextCoins ==
    \/ \E chunks \in CoinBuilds, fresh \in CoinFresh : Launch(chunks, fresh)
    \/ CoinFrame
    \/ Restart

SpecCoins == InitCoins /\ [][NextCoins]_vars

FarApart(coins) ==
    \A i, j \in DOMAIN coins :
        (i # j /\ ~coins[i].collected /\ ~coins[j].collected)
            => ~CoinTooClose(coins[i], coins[j].x, coins[j].y)

\* C3: in every state, in the session's coin list and in the coins file, any
\* two coins that are both uncollected have centres at least 64 px apart.
C3_CoinSpacing == FarApart(mode.coins) /\ FarApart(disk.coins)

\* A close draw was rejected: the build drew FreshClose and kept two coins.
C3_Witness ==
    /\ app.mode = "session"
    /\ Len(mode.coins) = 2
    /\ \A i \in DOMAIN mode.coins : ~mode.coins[i].collected
    /\ \E i \in DOMAIN mode.coins : mode.coins[i].x = PX(80)

UniqueIds(coins) ==
    \A i, j \in DOMAIN coins : i # j => coins[i].id # coins[j].id

\* C4: no two coins of the coin list ever share an id (ids are handed out
\* in increasing order, across sessions and process starts).
C4_UniqueCoinIds == UniqueIds(mode.coins) /\ UniqueIds(disk.coins)

\* No other coin of the list has the id of a collected coin.
NoIdOfCollected(coins) ==
    \A i, j \in DOMAIN coins :
        (i # j /\ coins[i].collected) => coins[j].id # coins[i].id

\* C20: a collected coin stays collected, in the coins file and so in every
\* later session loaded from it; a collection marks a coin that was
\* uncollected; and no coin is generated with the id of a collected coin.
C20_CollectedStays ==
    /\ [](NoIdOfCollected(mode.coins) /\ NoIdOfCollected(disk.coins))
    /\ [][ /\ \A i \in DOMAIN disk.coins :
                 disk.coins[i].collected =>
                    /\ i \in DOMAIN disk'.coins
                    /\ disk'.coins[i].collected
           /\ (ev'.ticked /\ ev'.collected >= 0) =>
                 \E i \in DOMAIN mode.coins :
                    /\ mode.coins[i].id = ev'.collected
                    /\ ~mode.coins[i].collected
                    /\ mode'.coins[i].collected ]_vars

-----------------------------------------------------------------------------
(* Snapshots: sessions loaded from an exported gameplay file, in which     *)
(* several orbs overlap the body at once, or the body is in the air with   *)
(* no orb in reach, or the body is on and around movers                    *)

\* An orb of the given type centred on a body at (x, y); the radius is the
\* one _add_orb gives the type (line 509).
OrbOn(typ, x, y) ==
    [x |-> x + PW \div 2, y |-> y + PH \div 2,
     r |-> PX(IF typ = "small" THEN 10 ELSE IF typ = "high" THEN 14 ELSE 12),
     type |-> typ]

\* The snapshot of a session with one long platform at ground height, the
\* body at (100, y) at rest, and an orb of each of the given types on it.
OrbSnapshot(types, y, on_ground) ==
    LET order == SelectSeq(<<"small", "normal", "high">>, LAMBDA t : t \in types)
    IN  [sidescroller |-> FALSE,
         platforms |-> << Rect(0, PX(ground_y), PX(1400), PX(40)) >>,
         movers |-> <<>>, spikes |-> <<>>,
         orbs |-> [i \in DOMAIN order |-> OrbOn(order[i], PX(100), y)],
         px |-> PX(100), py |-> y, vx |-> 0, vy |-> 0, on_ground |-> on_ground,
         time_alive |-> 0, score |-> 0, cam_x |-> 0, cam_y |-> 0,
         level_extent_x |-> PX(1860)]

OrbSnapshots ==
    { OrbSnapshot(types, PX(ground_y) - PH, TRUE) :
        types \in SUBSET {"small", "normal", "high"} }
    \cup { OrbSnapshot(types, PX(200), FALSE) :
             types \in SUBSET {"small", "normal", "high"} }
    \cup { OrbSnapshot({}, PX(ground_y) - PH - PX(1), FALSE) }

\* A mover 20 px high with its top 60 px above the ground line.
MoverFrom(x, w, vx, home) ==
    [x |-> PX(x), y |-> PX(ground_y - 60), w |-> PX(w), h |-> PX(20),
     vx |-> vx, home |-> PX(home), range |-> PX(220)]

\* The snapshot of a session with the given movers and the body at
\* (x, ground_y - 60 - ph - up) with vertical velocity vy.
MoverSnapshot(movers, x, up, vy, on_ground) ==
    [OrbSnapshot({}, PX(ground_y - 60) - PH - PX(up), on_ground)
        EXCEPT !.movers = movers, !.px = PX(x), !.vy = vy]

\* The body stands on one mover; on the ends of two movers that approach
\* each other, in either list order; rises 1 px above a mover; stands on
\* the ground beside a mover; is at the height of a mover's top, 1 px left
\* of the mover, which comes toward it.
MoverSnapshots ==
    { MoverSnapshot(<< MoverFrom(100, 120, vx, 100) >>, 140, 0, 0, TRUE) :
        vx \in {-120, 120} }
    \cup { MoverSnapshot(<< MoverFrom(100, 80, 120, 60),
                            MoverFrom(180, 80, -120, 220) >>, 162, 0, 0, TRUE),
             MoverSnapshot(<< MoverFrom(180, 80, -120, 220),
                            MoverFrom(100, 80, 120, 60) >>, 162, 0, 0, TRUE),
             MoverSnapshot(<< MoverFrom(100, 120, 120, 100) >>, 140, 1, -60, FALSE),
             MoverSnapshot(<< MoverFrom(100, 120, 120, 100) >>, 400, -60, 0, TRUE),
             MoverSnapshot(<< MoverFrom(177, 80, -120, 177) >>, 140, 0, 0, FALSE) }

InitSnapshot == \E P \in { ProcessStart(EmptyFiles, 0) } : StartsWith(P, 0)

\* Lines 1432-1453: a gameplay file is picked at the menu and loaded.
LoadSnapshot(data) ==
    /\ app.mode = "none"
    /\ hist.sessions < 1
    /\ \E P0 \in { [Pack EXCEPT !.ev = FirstEvents] } :
          \E P1 \in { load_imagewalker_from_json(P0, data, BuildDraws, FreshFar) } :
             Commit(P1)
    /\ hist' = [hist EXCEPT !.sessions = @ + 1]
    /\ UNCHANGED gen

SnapshotFrame ==
    \E events \in { <<>>, <<"jump_down">>, <<"right_down">> }, dt \in Dts :
        Frame(events, dt, dt, 0, PlainChunk)

NextSnapshot ==
    \/ \E data \in OrbSnapshots \cup MoverSnapshots : LoadSnapshot(data)
    \/ SnapshotFrame

SpecSnapshot == InitSnapshot /\ [][NextSnapshot]_vars

\* The multiplier the claim gives a set of touched orb types, in hundredths.
OrbPriority(types) ==
    CASE "high" \in types -> 135
      [] "high" \notin types /\ "normal" \in types -> 100
      [] types = {"small"} -> 60
      [] types = {} -> 100

\* C23: a jump takes the multiplier of the highest-priority orb type
\* overlapping the body: 1.35 with any 'high' orb, else 1.0 with any
\* 'normal' orb, else 0.6 with only 'small' orbs, and 1.0 with no orb, for
\* every set of orbs overlapping at once.
C23_OrbPriority ==
    (ev.ticked /\ ev.jump_req /\ (ev.jump_ground \/ ev.jump_types # {})) =>
        100 * ev.jump_vy = -(jump_speed * OrbPriority(ev.jump_types))

C23_Witness ==
    /\ ev.ticked /\ ev.jump_req
    /\ ev.jump_types = {"small", "normal", "high"}
    /\ ev.jump_vy = -783

\* C24: a jump takes effect only when the body was on the ground at the
\* end of the previous tick or touches an orb: a jump requested in the air
\* with no orb touched leaves vy as gravity left it.
C24_JumpNeedsSupport ==
    ev.ticked =>
        /\ ev.jump_vy # ev.vy_gravity =>
              (ev.jump_req /\ (ev.jump_ground \/ ev.jump_types # {}))
        /\ (ev.jump_req /\ ~ev.jump_ground /\ ev.jump_types = {}) =>
              ev.jump_vy = ev.vy_gravity

C24_Witness ==
    /\ ev.ticked /\ ev.jump_req /\ ~ev.jump_ground /\ ev.jump_types = {}
    /\ ev.vy_gravity > 0 /\ ev.jump_vy = ev.vy_gravity

\* C25: the jump request is cleared by every update, consumed or not:
\* want_jump is false at the end of every tick, and a tick whose events
\* hold no jump key press does not jump, whatever was requested before.
C25_RequestCleared ==
    /\ [](ev.ticked => ~mode.want_jump)
    /\ [][(ev'.ticked /\ ev'.frames = ev.frames + 1 /\ ~ev'.jump_key) =>
             ev'.jump_vy = ev'.vy_gravity]_vars

\* A tick after an unconsumed request: the body stood on the ground, no
\* key was pressed, and it did not jump.
C25_Witness ==
    /\ ev.ticked /\ ev.missed_jumps > 0 /\ ~ev.jump_key
    /\ ev.jump_ground /\ ev.jump_vy = ev.vy_gravity
    /\ ~mode.want_jump

\* The body as collision resolution left it rests on the i-th mover: it is
\* on the ground, its feet are within 2 units of the mover's top and it
\* overlaps the mover horizontally.
RestsOn(i) ==
    LET mv == ev.movers_seen[i]
    IN  /\ mode.on_ground
        /\ Abs(mode.py + PH - mv.y) <= PX(CARRY_TOLERANCE)
        /\ ev.px_resolved + PW > mv.x
        /\ ev.px_resolved < mv.x + mv.w

Resting == { i \in DOMAIN ev.movers_seen : RestsOn(i) }

\* How far the carry step moved the body.
Carried == ev.px_carried - ev.px_resolved

\* C27 as stated: the body is carried by a mover's velocity exactly when it
\* rests on that mover: px then changes by that mover's vx * dt, and with
\* no such mover no carry is applied.
C27_AsStated ==
    ev.ticked =>
        /\ \A i \in Resting : Carried = Travel(ev.movers_seen[i].vx, ev.dt)
        /\ Resting = {} => Carried = 0

\* C27, amended: when the body rests on one or more movers, px changes by
\* vx * dt of the first of them in list order; with none, no carry is
\* applied.
C27_CarriedByFirst ==
    ev.ticked =>
        IF Resting = {} THEN Carried = 0
        ELSE LET first == CHOOSE i \in Resting : \A k \in Resting : i <= k
             IN  Carried = Travel(ev.movers_seen[first].vx, ev.dt)

C27_Witness ==
    /\ ev.ticked /\ Resting = {1, 2}
    /\ ev.movers_seen[1].vx = -120 /\ ev.movers_seen[2].vx = 120
    /\ Carried = Travel(-120, ev.dt)

\* C28: in every tick each mover is advanced exactly once, by vx * dt,
\* before the body is moved and resolved: the collision resolution finds
\* the movers at their new places, and they are not advanced again.
C28_MoversFirst ==
    [][(ev'.ticked /\ ev'.frames = ev.frames + 1) =>
          /\ DOMAIN ev'.movers_seen = DOMAIN mode.movers
          /\ \A i \in DOMAIN mode.movers :
                /\ ev'.movers_seen[i].x
                      = mode.movers[i].x + Travel(mode.movers[i].vx, ev'.dt)
                /\ mode'.movers[i].x = ev'.movers_seen[i].x]_vars

\* The body has landed on a mover that was not under it before the mover
\* moved in this tick.
C28_Witness ==
    /\ ev.ticked /\ Resting = {1}
    /\ ev.movers_seen[1].vx < 0
    /\ ev.px_resolved + PW
          <= ev.movers_seen[1].x - Travel(ev.movers_seen[1].vx, ev.dt)

-----------------------------------------------------------------------------
(* Hazards: a body walking into a spike strip, falling through a gap to    *)
(* the kill line, and standing before a raised platform with the camera of *)
(* a side-scrolling session ahead of it                                    *)

\* A platform 40 px above the ground line with a spike strip on it.
RaisedSpikeChunk == [PlainChunk EXCEPT !.dy = -40, !.spike = TRUE]

\* place 1: on the first platform, clear of everything; place 2: on its
\* right end, 10 px before the raised platform; place 3: on the raised
\* platform, 14 px before its spike strip; place 4: in the gap behind it,
\* 10 px above the kill line.  cam_lag -PX(500) puts the camera's left edge
\* 100 px ahead of the body, as a loaded snapshot can (lines 1246-1248).
\* The body drifts at 20 px/s either way, stands still, or runs at full
\* speed.
HazardScenarios ==
    { [files |-> EmptyFiles, now |-> 0, side |-> side,
       chunks |-> << RaisedSpikeChunk, PlainChunk, PlainChunk >>,
       fresh |-> FreshFar, extra |-> <<>>,
       px |-> PX(CASE place = 1 -> 100 [] place = 2 -> 254
                   [] place = 3 -> 330 [] OTHER -> 640),
       py |-> CASE place = 3 -> PX(360) - PH
                [] place = 4 -> PX(1190)
                [] OTHER -> PX(400) - PH,
       vx |-> vx, vy |-> IF place = 4 THEN 600 ELSE 0,
       on_ground |-> (place # 4), cam_lag |-> lag, mover_steps |-> 0] :
      side \in BOOLEAN, place \in 1..4, vx \in {-20, 0, 20, 360},
      lag \in {0, -PX(500)} }

InitHazard ==
    \E sc \in HazardScenarios :
        ValidMidPlay(sc) /\ \E P \in { MidPlay(sc) } : StartsAt(P)

HazardFrame ==
    \E events \in { <<>>, <<"right_down">>, <<"left_down", "right_down">>,
                    <<"escape">> }, dt \in Dts :
        Frame(events, dt, dt, 0, PlainChunk)

NextHazard == HazardFrame

SpecHazard == InitHazard /\ [][NextHazard]_vars

\* The body as it stood at the spike test (after collision resolution and
\* carry) overlaps a spike strip.
SpikeOverlap ==
    \E i \in DOMAIN mode.spikes :
        intersect(ev.px_carried, mode.py, PW, PH, mode.spikes[i].x,
                  mode.spikes[i].y, mode.spikes[i].w, mode.spikes[i].h)

FellOut == mode.py > PX(kill_y)

\* The body was moved to the camera's left edge and there overlaps a
\* platform or mover.
Crushed ==
    /\ mode.sidescroller /\ ev.pushed
    /\ \E i \in DOMAIN Solids(mode) : BodyHits(mode, Solids(mode)[i])

\* C22: the body becomes dead in a tick if and only if in that tick it
\* overlaps a spike strip after collision resolution, or ends below the
\* kill line, or (side-scrolling only) is pushed to the camera's left edge
\* into a platform or mover; nothing else makes it dead.
C22_DeathCauses ==
    /\ [](ev.ticked => (mode.dead <=> (SpikeOverlap \/ FellOut \/ Crushed)))
    /\ [][(~mode.dead /\ mode'.dead) => ev'.ticked]_vars

C22_Witness ==
    /\ ev.ticked /\ mode.dead
    /\ Crushed /\ ~SpikeOverlap /\ ~FellOut

\* C29: with no net horizontal acceleration in a tick (neither or both of
\* left and right held) friction moves vx toward zero without overshooting:
\* after the friction step vx has the sign it had or is zero, and is not
\* larger in magnitude.
C29_FrictionNoOvershoot ==
    (ev.ticked /\ mode.hold_left = mode.hold_right) =>
        /\ ev.vx_before > 0 => (0 <= ev.vx_friction /\ ev.vx_friction <= ev.vx_before)
        /\ ev.vx_before < 0 => (ev.vx_before <= ev.vx_friction /\ ev.vx_friction <= 0)
        /\ ev.vx_before = 0 => ev.vx_friction = 0

\* Both keys held, and friction larger than the speed that is left.
C29_Witness ==
    /\ ev.ticked /\ mode.hold_left /\ mode.hold_right
    /\ ev.vx_before = 20 /\ ev.vx_friction = 0

\* C30: at the end of every tick |vx| <= max_speed.
C30_SpeedLimit == ev.ticked => Abs(mode.vx) <= max_speed

\* The clamp acted: acceleration had taken vx beyond max_speed.
C30_Witness ==
    /\ ev.ticked /\ ev.vx_friction > max_speed /\ mode.vx = max_speed

\* C31: in a side-scrolling session the body is never left behind the
\* camera's left edge: after every tick px >= cam_x, and a body that the push
\* to the edge left overlapping a platform or mover is dead after that tick.
C31_NeverLeftBehind ==
    (ev.ticked /\ mode.sidescroller) =>
        /\ mode.px >= mode.cam_x
        /\ Crushed => mode.dead

\* The body was pushed to the edge, into nothing, and lives on.
C31_Witness ==
    /\ ev.ticked /\ mode.sidescroller /\ ev.pushed
    /\ mode.px = mode.cam_x /\ ~Crushed /\ ~mode.dead

-----------------------------------------------------------------------------
(* Chunks: sessions whose camera is about to reach the frontier, with and  *)
(* without library images for the platforms                                *)

\* A landscape image and a tall one: scaled to a platform's width the first
\* keeps that width, the second is cut down to the height 240 and is 24 wide.
Library == << [iw |-> 640, ih |-> 480], [iw |-> 100, ih |-> 1000] >>

\* The narrowest and the widest chunk line 472 can draw, with every optional
\* part placed as far right as lines 476-489 allow.
NarrowFull ==
    [w |-> 180, gap |-> 80, dy |-> 0,
     orb |-> << [off |-> 126, up |-> 80, typ |-> "high"] >>,
     mover |-> << [off |-> 36, w |-> 140, up |-> 60, vx |-> 120, range |-> 100] >>,
     spike |-> TRUE,
     coin |-> << [off |-> 144, up |-> 40] >>,
     spring |-> << [off |-> 144] >>]

WideFull ==
    [w |-> 320, gap |-> 200, dy |-> 0,
     orb |-> << [off |-> 224, up |-> 80, typ |-> "small"] >>,
     mover |-> << [off |-> 176, w |-> 80, up |-> 60, vx |-> -120, range |-> 220] >>,
     spike |-> TRUE,
     coin |-> << [off |-> 256, up |-> 40] >>,
     spring |-> << [off |-> 256] >>]

\* Three chunks at the build and one in play put the frontier at 1900; the
\* body stands on the platform at x = 700, the camera's left edge 1500 or
\* a little less before the frontier.
ChunkScenarios ==
    { [files |-> EmptyFiles, now |-> 0, side |-> side,
       chunks |-> << WideChunk, WideChunk, WideChunk >>,
       fresh |-> FreshFar, extra |-> << extra >>,
       px |-> PX(px), py |-> PX(400) - PH, vx |-> vx, vy |-> 0,
       on_ground |-> TRUE, cam_lag |-> 0, mover_steps |-> 0] :
      side \in BOOLEAN, extra \in { WideChunk, [WideFull EXCEPT !.gap = 80] },
      px \in {790, 799, 800}, vx \in {0, 360} }

InitChunk ==
    \E lib \in { <<>>, Library }, sc \in ChunkScenarios :
        /\ ValidMidPlayWith(lib, sc)
        /\ \E P \in { MidPlayWith(lib, sc) } : FrontierAhead(P.m) /\ StartsAt(P)

ChunkFrame ==
    \E events \in { <<>>, <<"right_down">> }, dt \in Dts,
       ch \in { SmallChunk, NarrowFull, WideFull } :
        Frame(events, dt, dt, 0, ch)

NextChunk == ChunkFrame

SpecChunk == InitChunk /\ [][NextChunk]_vars

\* In an endless session every platform but the first (line 453) was
\* appended by a chunk generation (lines 457 and 687).
HorizontalOverlap(p, q) == p.x < q.x + q.w /\ q.x < p.x + p.w

\* C32: each chunk generation appends exactly one platform, at the frontier
\* as it was before the call, and advances the frontier by that platform's
\* width plus a gap of at least 80; the frontier strictly increases and no
\* two chunk-generated platforms overlap horizontally.
C32_ChunkAdvance ==
    /\ [](\A i \in 2..Len(mode.platforms) :
            /\ (IF i < Len(mode.platforms) THEN mode.platforms[i + 1].x
                                           ELSE mode.level_extent_x)
                  >= mode.platforms[i].x + mode.platforms[i].w + PX(80)
            /\ \A j \in 2..Len(mode.platforms) :
                  j # i => ~HorizontalOverlap(mode.platforms[i], mode.platforms[j]))
    /\ [][IF ev'.chunk
          THEN /\ Len(mode'.platforms) = Len(mode.platforms) + 1
               /\ SubSeq(mode'.platforms, 1, Len(mode.platforms)) = mode.platforms
               /\ mode'.platforms[Len(mode'.platforms)].x = mode.level_extent_x
               /\ mode'.level_extent_x
                     >= mode.level_extent_x
                          + mode'.platforms[Len(mode'.platforms)].w + PX(80)
               /\ mode'.level_extent_x > mode.level_extent_x
          ELSE /\ mode'.platforms = mode.platforms
               /\ mode'.level_extent_x = mode.level_extent_x]_vars

\* A chunk was generated in play whose platform took the size of a library
\* image narrower than the width drawn.
C32_Witness ==
    /\ ev.ticked /\ ev.chunk /\ app.lib # <<>>
    /\ mode.platforms[Len(mode.platforms)].x = ev.extent_before
    /\ mode.platforms[Len(mode.platforms)].w < ev.chunk_w

-----------------------------------------------------------------------------
(* Save files of any content: what load_coins_data and load_level_progress *)
(* return for them, and whether the code that uses the result raises       *)

\* A JSON value, by its type: t is "absent" (the key is not there), "null",
\* "number", "string" (not a numeral), "list" (of coin dicts, or of level
\* indices) or "number_list" (a list of numbers where coin dicts belong).
JsonValue(t, items, n) == [t |-> t, items |-> items, n |-> n]

SavedCoin == [id |-> 0, x |-> PX(80), y |-> PX(360), r |-> PX(COIN_RADIUS),
              collected |-> FALSE]

CoinsValues ==
    { JsonValue("absent", <<>>, 0), JsonValue("null", <<>>, 0),
      JsonValue("number", <<>>, 5), JsonValue("number_list", <<>>, 0),
      JsonValue("list", <<>>, 0), JsonValue("list", << SavedCoin >>, 0) }

BuffValues ==
    { JsonValue("absent", <<>>, 0), JsonValue("null", <<>>, 0),
      JsonValue("string", <<>>, 0), JsonValue("number", <<>>, 30000) }

CompletedValues ==
    { JsonValue("absent", <<>>, 0), JsonValue("null", <<>>, 0),
      JsonValue("number", <<>>, 5), JsonValue("list", <<>>, 0),
      JsonValue("list", << 1 >>, 0) }

\* The content of a save file: form is "missing" (no file), "garbage" (not
\* JSON), "array" (JSON whose top level is a list) or "object".
CoinsFiles ==
    { [form |-> form, coins |-> JsonValue("absent", <<>>, 0),
       buff |-> JsonValue("absent", <<>>, 0)] :
      form \in {"missing", "garbage", "array"} }
    \cup { [form |-> "object", coins |-> c, buff |-> b] :
             c \in CoinsValues, b \in BuffValues }

ProgressFiles ==
    { [form |-> form, completed |-> JsonValue("absent", <<>>, 0)] :
      form \in {"missing", "garbage", "array"} }
    \cup { [form |-> "object", completed |-> c] : c \in CompletedValues }

DefaultCoins == [coins |-> JsonValue("list", <<>>, 0), buff_end_time |-> 0]

DefaultProgress == [top |-> "object", completed |-> JsonValue("list", <<>>, 0)]

\* Lines 54-62 on a coins file of any content: no file, a json.load error,
\* data.get on a list and float() of a non-number end in the default; else
\* the dict's "coins" value is returned as it is.
load_coins_file(file) ==
    IF file.form # "object" THEN DefaultCoins
    ELSE IF file.buff.t \in {"null", "string"} THEN DefaultCoins
    ELSE [coins |-> IF file.coins.t = "absent" THEN JsonValue("list", <<>>, 0)
                    ELSE file.coins,
          buff_end_time |-> IF file.buff.t = "absent" THEN 0 ELSE file.buff.n]

\* Lines 71-78: no file and a json.load error end in the default; else the
\* parsed value is returned as it is.
load_level_progress(file) ==
    IF file.form \in {"missing", "garbage"} THEN DefaultProgress
    ELSE [top |-> file.form, completed |-> file.completed]

\* Lines 417 and 464 (also 434): the constructor iterates self.coins and
\* calls c.get on its entries, which raises unless it is a list of dicts.
coins_init_raises(loaded) == loaded.coins.t # "list"

\* Lines 943 and 1511: progress.get("completed", []) and the membership
\* test on it raise unless the value is a dict whose "completed", if there,
\* is a list.
progress_use_raises(prog) ==
    prog.top # "object" \/ prog.completed.t \notin {"absent", "list"}

\* The file is missing, corrupt, or JSON of the wrong shape: the top level
\* is not a dict, or a key that is there has a value of the wrong type.
BadCoinsFile(file) ==
    \/ file.form # "object"
    \/ file.coins.t \notin {"absent", "list"}
    \/ file.buff.t \notin {"absent", "number"}

BadProgressFile(file) ==
    file.form # "object" \/ file.completed.t \notin {"absent", "list"}

InitLoad == \E P \in { ProcessStart(EmptyFiles, 0) } : StartsWith(P, 0)

\* Lines 1041 and 416-427: the coins file is loaded and a session is
\* constructed on the result.
LoadCoins(file) ==
    /\ Len(hist.loads) < MaxLoads
    /\ \E loaded \in { load_coins_file(file) } :
          hist' = [hist EXCEPT !.loads =
              Append(@, [name |-> "coins", file |-> file, bad |-> BadCoinsFile(file),
                         default |-> loaded = DefaultCoins,
                         raised |-> coins_init_raises(loaded)])]
    /\ UNCHANGED <<mode, app, COIN_ID_COUNTER, disk, now, ev, gen>>

\* Lines 919 and 943: the progress file is loaded and the selector is drawn.
LoadProgress(file) ==
    /\ Len(hist.loads) < MaxLoads
    /\ \E prog \in { load_level_progress(file) } :
          hist' = [hist EXCEPT !.loads =
              Append(@, [name |-> "progress", file |-> file, bad |-> BadProgressFile(file),
                         default |-> prog = DefaultProgress,
                         raised |-> progress_use_raises(prog)])]
    /\ UNCHANGED <<mode, app, COIN_ID_COUNTER, disk, now, ev, gen>>

NextLoad ==
    \/ \E file \in CoinsFiles : LoadCoins(file)
    \/ \E file \in ProgressFiles : LoadProgress(file)

SpecLoad == InitLoad /\ [][NextLoad]_vars

\* C18: loading a missing, corrupt or wrongly shaped save file yields the
\* empty default state, and the code that uses it does not raise.
C18_BadFileNeverFatal ==
    \A i \in DOMAIN hist.loads :
        hist.loads[i].bad => (hist.loads[i].default /\ ~hist.loads[i].raised)

-----------------------------------------------------------------------------
(* Seeded launches from the menu *)

SpikeChunk == [PlainChunk EXCEPT !.spike = TRUE]

SeededBuilds == { BuildDraws, << PlainChunk, SpikeChunk, PlainChunk >> }

InitSeeded == \E P \in { ProcessStart(EmptyFiles, 0) } : StartsWith(P, 0)

\* Lines 1467-1481: the seed button, with the seed the player typed.  The
\* launch is recorded with the platform and spike lists it starts with.
LaunchSeeded(seed_int, chunks, fresh) ==
    /\ app.mode = "none"
    /\ hist.sessions < MaxSessions
    /\ \E P0 \in { [Pack EXCEPT !.ev = FirstEvents] } :
          /\ ValidBuild([P0 EXCEPT !.m = [NewMode(FALSE, P0.app.coins_state, TRUE)
                                            EXCEPT !.level_extent_x = PX(300)]],
                        chunks, fresh)
          /\ \E P1 \in { launch_seeded_image_walker(P0, seed_int, chunks, fresh) } :
                /\ Commit(P1)
                /\ hist' = [hist EXCEPT
                      !.sessions = @ + 1,
                      !.seeded = Append(@, [seed |-> seed_int,
                                            platforms |-> P1.m.platforms,
                                            spikes |-> P1.m.spikes])]
    /\ UNCHANGED gen

SeededFrame ==
    \E events \in { <<>>, <<"right_down">>, <<"escape">> }, dt \in Dts :
        Frame(events, dt, dt, 0, PlainChunk)

NextSeeded ==
    \/ \E seed_int \in 0..MaxSeed, chunks \in SeededBuilds :
          LaunchSeeded(seed_int, chunks, FreshFar)
    \/ SeededFrame

SpecSeeded == InitSeeded /\ [][NextSeeded]_vars

\* C14: two sessions started by launch_seeded_image_walker with the same
\* seed begin with identical platform lists and identical spike lists.
C14_SeededLaunchDeterministic ==
    \A i, j \in DOMAIN hist.seeded :
        hist.seeded[i].seed = hist.seeded[j].seed
            => /\ hist.seeded[i].platforms = hist.seeded[j].platforms
               /\ hist.seeded[i].spikes = hist.seeded[j].spikes

-----------------------------------------------------------------------------
(* Death: a body walking into a spike strip with a coin over the strip's   *)
(* near end                                                                *)

\* A platform 40 px above the ground line with a spike strip on it and a
\* coin 40 px above the platform, 90 px from its left end.
CoinSpikeChunk == [RaisedSpikeChunk EXCEPT !.coin = << [off |-> 90, up |-> 40] >>]

\* The body stands on the raised platform, 14 to 24 px before the strip.
DeathScenarios ==
    { [files |-> EmptyFiles, now |-> 0, side |-> side,
       chunks |-> << CoinSpikeChunk, PlainChunk, PlainChunk >>,
       fresh |-> FreshFar, extra |-> <<>>,
       px |-> PX(px), py |-> PX(360) - PH, vx |-> vx, vy |-> 0,
       on_ground |-> TRUE, cam_lag |-> 0, mover_steps |-> 0] :
      side \in BOOLEAN, px \in {320, 326, 330}, vx \in {0, 20, 360} }

InitDeath ==
    \E sc \in DeathScenarios :
        ValidMidPlay(sc) /\ \E P \in { MidPlay(sc) } : StartsAt(P)

DeathFrame ==
    \E events \in { <<>>, <<"right_down">>, <<"left_down">> }, dt \in Dts :
        Frame(events, dt, dt, 0, PlainChunk)

NextDeath == DeathFrame

SpecDeath == InitDeath /\ [][NextDeath]_vars

\* C36: once the body has become dead in a tick, the rest of that tick
\* changes nothing: no coin is collected, no buff is started, no spring
\* launch alters vy, the score does not change and no chunk is generated.
C36_NothingAfterDeath ==
    (ev.ticked /\ Len(ev.at_death) = 1) =>
        /\ mode.coins = ev.at_death[1].coins
        /\ mode.buff_end_time = ev.at_death[1].buff_end_time
        /\ mode.vy = ev.at_death[1].vy
        /\ mode.score = ev.at_death[1].score
        /\ mode.level_extent_x = ev.at_death[1].level_extent_x

-----------------------------------------------------------------------------
(* Outcomes: imported levels whose Finish square lies where the body dies  *)

\* The generated level lvl with a spike strip added across the lower part
\* of its Finish square.
SpikedFinishLevel(lvl) ==
    Bind(GeneratedLevel(lvl), LAMBDA level_data :
         [level_data EXCEPT !.platforms =
             Append(@, [x |-> level_data.finish.x, y |-> level_data.finish.y + PX(20),
                        w |-> PX(34), h |-> PX(20), spikes |-> TRUE])])

\* The generated level lvl with its Finish square moved below the kill
\* line, half way through the level.
LowFinishLevel(lvl) ==
    [GeneratedLevel(lvl) EXCEPT !.finish = [x |-> PX(1300), y |-> PX(kill_y + 40),
                                            size |-> PX(34)]]

\* The body in the air short of the spiked Finish square, or falling toward
\* the low one.
OutcomeStarts ==
    { MidImportedLevel(SpikedFinishLevel(lvl),
                       [lvl |-> lvl, px |-> PX(px), py |-> PX(py), vx |-> vx,
                        vy |-> vy, extra |-> << PlainChunk, PlainChunk >>]) :
        lvl \in 1..MaxLevel, px \in {2270, 2280}, py \in {270, 300},
        vx \in {0, 360}, vy \in {0, 200} }
    \cup
    { MidImportedLevel(LowFinishLevel(lvl),
                       [lvl |-> lvl, px |-> PX(px), py |-> PX(py), vx |-> vx,
                        vy |-> vy, extra |-> <<>>]) :
        lvl \in 1..MaxLevel, px \in {1290, 1300}, py \in {270, 1190},
        vx \in {0, 360}, vy \in {0, 600} }

InitOutcome ==
    \E P \in OutcomeStarts :
        ClearOfWorld(P.m) /\ FrontierAhead(P.m) /\ StartsAt(P)

OutcomeFrame ==
    \E events \in { <<>>, <<"right_down">>, <<"escape">> }, dt \in Dts :
        Frame(events, dt, dt, 0, PlainChunk)

NextOutcome == OutcomeFrame

SpecOutcome == InitOutcome /\ [][NextOutcome]_vars

-----------------------------------------------------------------------------
(* Movers: a mover near the end of its range, in ticks of varying length   *)

\* The longest tick duration.
DtMax == 20 * MaxDtSteps

\* A mover as line 481 makes it: 80 wide, range 100, home at x = 400.
Oscillator(vx) ==
    [x |-> PX(400), y |-> PX(ground_y - 60), w |-> PX(80), h |-> PX(20),
     vx |-> vx, home |-> PX(400), range |-> PX(100)]

\* The snapshot of a session whose mover has run k ticks of 20 ms and one
\* of dt ms, the body at rest on the ground far from it.
OscillatorSnapshot(vx, k, dt) ==
    [OrbSnapshot({}, PX(ground_y) - PH, TRUE)
        EXCEPT !.movers = << advance_mover(advance_steps(Oscillator(vx), k), dt) >>,
               !.px = PX(1000), !.cam_x = PX(600)]

OscillatorSnapshots ==
    { OscillatorSnapshot(vx, k, dt) :
        vx \in {-120, 120}, k \in {0, 20, 39, 40, 41, 42}, dt \in Dts }

InitMover == \E P \in { ProcessStart(EmptyFiles, 0) } : StartsWith(P, 0)

MoverFrame == \E dt \in Dts : Frame(<<>>, dt, dt, 0, PlainChunk)

NextMover ==
    \/ \E data \in OscillatorSnapshots : LoadSnapshot(data)
    \/ MoverFrame

SpecMover == InitMover /\ [][NextMover]_vars

\* C34: a mover is a bounded reflecting oscillator: with tick durations up
\* to dt_max its distance from its home x never exceeds its range plus the
\* distance it travels in one tick of length dt_max, and |vx| never changes.
C34_BoundedOscillator ==
    /\ [](app.mode = "session" =>
            \A i \in DOMAIN mode.movers :
                Abs(mode.movers[i].x - mode.movers[i].home)
                   <= mode.movers[i].range + Travel(Abs(mode.movers[i].vx), DtMax))
    /\ [][(ev'.ticked /\ ev'.frames = ev.frames + 1) =>
            /\ DOMAIN mode'.movers = DOMAIN mode.movers
            /\ \A i \in DOMAIN mode.movers :
                  Abs(mode'.movers[i].vx) = Abs(mode.movers[i].vx)]_vars

-----------------------------------------------------------------------------
(* Placement: what a chunk puts on its platform, and where the seeded      *)
(* generator puts its spike strips.  Sessions are launched from a seed,    *)
(* with or without library images; their build generates chunks            *)

\* Lines 1107-1110: the player picks the images for the platforms.
SetPlatforms(lib) ==
    /\ app.mode = "none"
    /\ app.lib = <<>>
    /\ app' = [app EXCEPT !.lib = lib]
    /\ UNCHANGED <<mode, COIN_ID_COUNTER, disk, now, ev, gen, hist>>

PlaceBuilds == { << WideFull, NarrowFull, WideFull >>,
                 << PlainChunk, SpikeChunk, PlainChunk >> }

InitPlace == \E P \in { ProcessStart(EmptyFiles, 0) } : StartsWith(P, 0)

PlaceFrame ==
    \E events \in { <<>>, <<"escape">> }, dt \in Dts :
        Frame(events, dt, dt, 0, PlainChunk)

NextPlace ==
    \/ SetPlatforms(Library)
    \/ \E seed_int \in 0..MaxSeed, chunks \in PlaceBuilds :
          LaunchSeeded(seed_int, chunks, FreshFar)
    \/ PlaceFrame

SpecPlace == InitPlace /\ [][NextPlace]_vars

\* The spike strips of a generated level with the platform each was
\* generated with: line 842 appends the strip right after its platform.
LevelStrips ==
    { i \in DOMAIN ev.level : ev.level[i].spikes }

\* C33: every orb, mover, spike strip, coin and spring a chunk
\* placed, and every spike strip of the seeded generator, lies within the
\* horizontal span of its platform: left edge at or right of the platform's
\* left edge, right edge (centre, for circles) at or left of its right edge.
C33_WithinPlatformSpan ==
    /\ \A k \in DOMAIN ev.placed :
          LET c == ev.placed[k]
              lo == c.platform.x
              hi == c.platform.x + c.platform.w
          IN  /\ \A i \in DOMAIN c.orbs :
                    lo <= c.orbs[i].x - c.orbs[i].r /\ c.orbs[i].x <= hi
              /\ \A i \in DOMAIN c.movers :
                    lo <= c.movers[i].x /\ c.movers[i].x + c.movers[i].w <= hi
              /\ \A i \in DOMAIN c.spikes :
                    lo <= c.spikes[i].x /\ c.spikes[i].x + c.spikes[i].w <= hi
              /\ \A i \in DOMAIN c.coins :
                    lo <= c.coins[i].x - c.coins[i].r /\ c.coins[i].x <= hi
              /\ \A i \in DOMAIN c.springs :
                    lo <= c.springs[i].x /\ c.springs[i].x + c.springs[i].w <= hi
    /\ \A i \in LevelStrips :
          /\ i > 1
          /\ ~ev.level[i - 1].spikes
          /\ ev.level[i - 1].x <= ev.level[i].x
          /\ ev.level[i].x + ev.level[i].w <= ev.level[i - 1].x + ev.level[i - 1].w

-----------------------------------------------------------------------------
(* The seeded generator called again and again, the process-wide generator *)
(* of the random module being drawn from in between                        *)

InitGen == \E P \in { ProcessStart(EmptyFiles, 0) } : StartsWith(P, 0)

\* Lines 971, 979 and 1374: a call of generate_level_by_index(idx) with the
\* default width and ground_y.
GenerateCall(idx) ==
    /\ Len(gen.calls) < MaxCalls
    /\ \E level_data \in { generate_level_by_index(idx, PX(LEVEL_WIDTH), PX(ground_y)) } :
          gen' = [gen EXCEPT !.calls =
                     Append(@, [seed |-> idx, at |-> gen.draws, result |-> level_data])]
    /\ UNCHANGED <<mode, app, COIN_ID_COUNTER, disk, now, ev, hist>>

\* Any draw from the module-level generator (lines 466-489 and others).
GlobalDraw ==
    /\ gen.draws < MaxDraws
    /\ gen' = [gen EXCEPT !.rng = RngNext(@), !.draws = @ + 1]
    /\ UNCHANGED <<mode, app, COIN_ID_COUNTER, disk, now, ev, hist>>

NextGen ==
    \/ \E idx \in 0..MaxSeed : GenerateCall(idx)
    \/ GlobalDraw

SpecGen == InitGen /\ [][NextGen]_vars

\* C1: two calls of generate_level_by_index with the same seed return the
\* same platform list (spike strips included) and the same Finish square.
C1_SameSeedSameLevel ==
    \A i, j \in DOMAIN gen.calls :
        gen.calls[i].seed = gen.calls[j].seed
            => /\ gen.calls[i].result.platforms = gen.calls[j].result.platforms
               /\ gen.calls[i].result.finish = gen.calls[j].result.finish

C1_Witness ==
    \E i, j \in DOMAIN gen.calls :
        /\ i < j
        /\ gen.calls[i].seed = gen.calls[j].seed
        /\ gen.calls[i].at < gen.calls[j].at
        /\ Len(gen.calls[i].result.platforms) > 1
        /\ gen.calls[i].result = gen.calls[j].result

=============================================================================
